---- MODULE Spec2Model ----
(***************************************************************************)
(* Model of the allocation and assignment engine of the ml-service:        *)
(*   - PIOptimizer            (app/ml/pi_optimizer.py)                      *)
(*   - DependencyAnalyzer     (app/ml/dependency_analyzer.py)               *)
(*   - TaskAssignmentModel    (app/ml/task_assignment.py)                   *)
(*   - SprintAutoGenerator    (app/ml/sprint_generator.py)                  *)
(*   - SprintPlannerModel     (app/ml/sprint_planner.py)                    *)
(*   - WorkloadBalancer       (app/ml/workload_balancer.py)                 *)
(*   - recommend_assignee     (app/api/routes/task_assignment.py)           *)
(* Each component has its own specification (SpecPI, SpecDA, ...); the     *)
(* variables of the other components stay at their idle value.             *)
(***************************************************************************)
EXTENDS Integers, Sequences, FiniteSets, TLC

VARIABLES
    pc,             \* "idle" before the call under study, "done" after it
    pi_in,          \* the request given to PIOptimizer.optimize
    pi_out,         \* what optimize returned
    da_tasks,       \* the tasks a DependencyAnalyzer was built from
    da_in_degree,   \* its self.in_degree
    da_out,         \* the result of the last call on it
    da_mutations,   \* how many calls so far ran parallel_execution
    ta_in,          \* the task and developer given to _score_developer
    ta_out,         \* the recommendation it returned
    sg_team,        \* the roster given to generate_plan
    sg_tasks,       \* the tasks generated for the selected stories, in plan order
    sg_assigned,    \* the plan as _assign_tasks_to_team returned it
    sg_balanced,    \* the plan as _balance_workload returned it
    sp_in,          \* the backlog and capacity given to optimize_story_selection
    sp_results,     \* the shortlists its calls returned so far, oldest first
    wb_in,          \* the tasks and team given to WorkloadBalancer.balance_workload
    wb_out,         \* what balance_workload returned
    sl_in,          \* the stories and team given to calculate_sprint_load
    sl_out,         \* what calculate_sprint_load returned
    ss_in,          \* the stories and capacity given to generate_plan
    ss_out,         \* the stories _select_stories_for_capacity returned
    rc_cache,       \* the entries of the prediction cache, by cache key
    rc_in,          \* the requests recommend_assignee received, oldest first
    rc_out          \* the responses it returned, oldest first

pi_vars == <<pi_in, pi_out>>
da_vars == <<da_tasks, da_in_degree, da_out, da_mutations>>
ta_vars == <<ta_in, ta_out>>
sg_vars == <<sg_team, sg_tasks, sg_assigned, sg_balanced>>
sp_vars == <<sp_in, sp_results>>
wb_vars == <<wb_in, wb_out>>
sl_vars == <<sl_in, sl_out>>
ss_vars == <<ss_in, ss_out>>
rc_vars == <<rc_cache, rc_in, rc_out>>
vars == <<pc, pi_vars, da_vars, ta_vars, sg_vars, sp_vars, wb_vars, sl_vars, ss_vars, rc_vars>>

\* the value of a component's variables in the specifications of the others
Unused == <<>>
PIUnused == pi_in = Unused /\ pi_out = Unused
DAUnused ==
    da_tasks = Unused /\ da_in_degree = Unused /\ da_out = Unused /\ da_mutations = 0
TAUnused == ta_in = Unused /\ ta_out = Unused
SGUnused ==
    sg_team = Unused /\ sg_tasks = Unused /\ sg_assigned = Unused /\ sg_balanced = Unused
SPUnused == sp_in = Unused /\ sp_results = Unused
WBUnused == wb_in = Unused /\ wb_out = Unused /\ sl_in = Unused /\ sl_out = Unused
SSUnused == ss_in = Unused /\ ss_out = Unused
RCUnused == rc_cache = Unused /\ rc_in = Unused /\ rc_out = Unused

(***************************************************************************)
(* Generic helpers                                                         *)
(***************************************************************************)
RECURSIVE SumSeq(_)
SumSeq(s) == IF s = <<>> THEN 0 ELSE Head(s) + SumSeq(Tail(s))

Range(s) == {s[i] : i \in DOMAIN s}

(***************************************************************************)
(* PIOptimizer                                                             *)
(***************************************************************************)
\* bounds of the PI requests
MaxPoints == 2
MaxCapacity == 5
MaxDependencies == 2

FeatureIds == {1, 2, 3}
UnknownId == 0
SprintIds == {1, 2}
Priorities == {"high", "low"}

Features ==
    [FeatureIds -> [points : 1..MaxPoints, priority : Priorities]]
Sprints == [SprintIds -> 0..MaxCapacity]
DependencyEdges ==
    {e \in [fromFeature : FeatureIds, toFeature : FeatureIds \cup {UnknownId}] :
        e.fromFeature # e.toFeature}

\* the dependency lists of a request: at most MaxDependencies distinct edges,
\* listed by fromFeature, then toFeature
RECURSIVE EdgeList(_)
EdgeList(edges) ==
    IF edges = {} THEN <<>>
    ELSE LET e == CHOOSE x \in edges : \A y \in edges :
                      \/ x.fromFeature < y.fromFeature
                      \/ x.fromFeature = y.fromFeature /\ x.toFeature <= y.toFeature
         IN <<e>> \o EdgeList(edges \ {e})

DependencyLists ==
    {EdgeList(d) : d \in {x \in SUBSET DependencyEdges : Cardinality(x) <= MaxDependencies}}

NumFeatures == Cardinality(FeatureIds)
NumSprints == Cardinality(SprintIds)

\* _build_dependency_graph: feature id -> list of the ids it depends on
build_dependency_graph(dependencies) ==
    [f \in FeatureIds |->
        LET idx == {i \in DOMAIN dependencies : dependencies[i].fromFeature = f}
            RECURSIVE collect(_)
            collect(i) ==
                IF i > Len(dependencies) THEN <<>>
                ELSE IF i \in idx THEN <<dependencies[i].toFeature>> \o collect(i + 1)
                ELSE collect(i + 1)
        IN collect(1)]

\* dependency_graph.get(feature_id, [])
GraphGet(graph, fid) == IF fid \in DOMAIN graph THEN graph[fid] ELSE <<>>

priority_weights(p) ==
    CASE p = "critical" -> 10
      [] p = "high" -> 7
      [] p = "medium" -> 4
      [] p = "low" -> 1
      [] OTHER -> 4

DefaultBusinessValue == 5

\* _calculate_priority_scores: the score is the rational num / den
ScoreNum(feature) == priority_weights(feature.priority) * DefaultBusinessValue
ScoreDen(feature) == feature.points + 1
ScoreGreater(f, g) == ScoreNum(f) * ScoreDen(g) > ScoreNum(g) * ScoreDen(f)
ScoreEqual(f, g) == ScoreNum(f) * ScoreDen(g) = ScoreNum(g) * ScoreDen(f)

\* sorted_feature_ids without the sort: the ids in input order
sorted_feature_ids_Unsorted(features) == [k \in 1..NumFeatures |-> k]

\* sorted(ids, key=score, reverse=True): stable, descending
sorted_feature_ids(features) ==
    LET rank(i) == Cardinality({j \in FeatureIds :
                        \/ ScoreGreater(features[j], features[i])
                        \/ ScoreEqual(features[j], features[i]) /\ j < i}) + 1
    IN [k \in 1..NumFeatures |-> CHOOSE i \in FeatureIds : rank(i) = k]

\* the state of one run of _sort_features_by_priority
SortState0 == [visited |-> {}, temp_visited |-> {}, sorted_list |-> <<>>]

\* line 116: temp_visited.add(feature_id)
EnterVisit(st, fid) == [st EXCEPT !.temp_visited = @ \cup {fid}]

\* LeaveVisit without visited.add(feature_id)
LeaveVisit_NoVisitedMark(st, fid) ==
    LET marked == [st EXCEPT !.temp_visited = @ \ {fid}]
    IN IF fid \in FeatureIds
       THEN [marked EXCEPT !.sorted_list = Append(@, fid)]
       ELSE marked

\* lines 122-128: leave the node, mark it visited, append the feature if found
LeaveVisit(st, fid) ==
    LET marked == [st EXCEPT !.temp_visited = @ \ {fid},
                             !.visited = @ \cup {fid}]
    IN IF fid \in FeatureIds
       THEN [marked EXCEPT !.sorted_list = Append(@, fid)]
       ELSE marked

\* the nested function visit of _sort_features_by_priority
RECURSIVE visit(_, _, _), visit_deps(_, _, _, _)
visit(graph, fid, st) ==
    IF fid \in st.temp_visited THEN st          \* circular dependency, skip
    ELSE IF fid \in st.visited THEN st
    ELSE LeaveVisit(visit_deps(graph, GraphGet(graph, fid), 1, EnterVisit(st, fid)), fid)

visit_deps(graph, deps, i, st) ==
    IF i > Len(deps) THEN st
    ELSE visit_deps(graph, deps, i + 1, visit(graph, deps[i], st))

\* _sort_features_by_priority: the visitation order (feature ids)
RECURSIVE visit_in_priority_order(_, _, _, _)
visit_in_priority_order(graph, ids, i, st) ==
    IF i > Len(ids) THEN st
    ELSE IF ids[i] \in st.visited
         THEN visit_in_priority_order(graph, ids, i + 1, st)
         ELSE visit_in_priority_order(graph, ids, i + 1, visit(graph, ids[i], st))

sort_features_by_priority(features, graph) ==
    visit_in_priority_order(graph, sorted_feature_ids(features), 1, SortState0).sorted_list

\* feature.get("points", 0) or feature.get("estimatedStoryPoints", 0) or 0
PointsOf(features, fid) == features[fid].points

\* the state of one run of _allocate_features_to_sprints
AllocState0 ==
    [assignments |-> <<>>,
     sprint_allocated |-> [s \in SprintIds |-> 0],
     feature_to_sprint |-> [f \in {} |-> 0]]

\* lines 166-168: the sprints of the dependencies that are already placed
dependency_sprints(graph, fid, st) ==
    {st.feature_to_sprint[d] :
        d \in {x \in Range(GraphGet(graph, fid)) : x \in DOMAIN st.feature_to_sprint}}

\* line 177: the capacity test of the sprint loop
HasCapacity(sprints, st, sid, points) ==
    st.sprint_allocated[sid] + points <= sprints[sid]

\* lines 171-186: the scan over the sprints in list order; 0 stands for None
RECURSIVE scan_sprints(_, _, _, _, _, _)
scan_sprints(sprints, st, depSprints, points, sid, best) ==
    IF sid > NumSprints THEN best
    ELSE IF HasCapacity(sprints, st, sid, points)
         THEN IF sid \in depSprints THEN sid                 \* break
              ELSE IF best = 0
                   THEN scan_sprints(sprints, st, depSprints, points, sid + 1, sid)
                   ELSE scan_sprints(sprints, st, depSprints, points, sid + 1, best)
         ELSE scan_sprints(sprints, st, depSprints, points, sid + 1, best)

\* lines 189-191: no sprint found, the first sprint is taken anyway
best_sprint_id(sprints, graph, fid, points, st) ==
    LET found == scan_sprints(sprints, st, dependency_sprints(graph, fid, st), points, 1, 0)
    IN IF found = 0 THEN 1 ELSE found

\* AddAllocated that overwrites the running total instead of adding to it
AddAllocated_Overwrite(allocated, sid, points) ==
    [allocated EXCEPT ![sid] = points]

\* line 204: the running total of the chosen sprint
AddAllocated(allocated, sid, points) ==
    [allocated EXCEPT ![sid] = @ + points]

\* lines 193-204: record the assignment
place_feature(st, fid, sid, points) ==
    [assignments |-> Append(st.assignments,
                        [featureId |-> fid, sprintId |-> sid, points |-> points]),
     sprint_allocated |-> AddAllocated(st.sprint_allocated, sid, points),
     feature_to_sprint |-> (fid :> sid) @@ st.feature_to_sprint]

RECURSIVE allocate_loop(_, _, _, _, _, _)
allocate_loop(features, sprints, graph, sorted, i, st) ==
    IF i > Len(sorted) THEN st
    ELSE LET fid == sorted[i]
             points == PointsOf(features, fid)
             sid == best_sprint_id(sprints, graph, fid, points, st)
         IN allocate_loop(features, sprints, graph, sorted, i + 1,
                          place_feature(st, fid, sid, points))

\* _allocate_features_to_sprints
allocate_features_to_sprints(features, sprints, graph, sorted) ==
    allocate_loop(features, sprints, graph, sorted, 1, AllocState0)

\* sum(a["points"] for a in assignments if a["sprintId"] == sprint_id)
RECURSIVE SumPointsIn(_, _)
SumPointsIn(assignments, sid) ==
    IF assignments = <<>> THEN 0
    ELSE (IF Head(assignments).sprintId = sid THEN Head(assignments).points ELSE 0)
         + SumPointsIn(Tail(assignments), sid)

\* _calculate_metrics, sprintUtilization; utilization is kept in tenths of a
\* percent, truncated (the code rounds to one decimal)
calculate_metrics(assignments, sprints) ==
    [s \in SprintIds |->
        LET allocated == SumPointsIn(assignments, s)
            capacity == sprints[s]
        IN [allocated |-> allocated,
            capacity |-> capacity,
            utilization |-> IF capacity > 0 THEN (allocated * 1000) \div capacity ELSE 0]]

\* IsHighSeverity with >= in place of >
IsHighSeverity_AtThreshold(allocated, capacity) == 5 * (allocated - capacity) >= capacity

\* line 266: (allocated - capacity) > capacity * 0.2
IsHighSeverity(allocated, capacity) == 5 * (allocated - capacity) > capacity

\* line 255: the test that emits a warning
IsOverloaded(allocated, capacity) == allocated > capacity

\* _check_overloads: the warnings, one per overloaded sprint that has assignments
check_overloads(assignments, sprints) ==
    LET used == {assignments[i].sprintId : i \in DOMAIN assignments}
    IN {[sprintId |-> s,
         allocated |-> SumPointsIn(assignments, s),
         capacity |-> sprints[s],
         overload |-> SumPointsIn(assignments, s) - sprints[s],
         severity |-> IF IsHighSeverity(SumPointsIn(assignments, s), sprints[s])
                      THEN "high" ELSE "medium"] :
        s \in {x \in used : IsOverloaded(SumPointsIn(assignments, x), sprints[x])}}

\* PIOptimizer.optimize; sprint_allocated is the allocator's running total and
\* order the visitation order, kept beside the returned fields; optimize has no
\* raise statement, so error is always "none"
optimize(features, sprints, dependencies) ==
    LET graph == build_dependency_graph(dependencies)
        sorted == sort_features_by_priority(features, graph)
        alloc == allocate_features_to_sprints(features, sprints, graph, sorted)
    IN [assignments |-> alloc.assignments,
        metrics |-> calculate_metrics(alloc.assignments, sprints),
        warnings |-> check_overloads(alloc.assignments, sprints),
        sprint_allocated |-> alloc.sprint_allocated,
        order |-> sorted,
        error |-> "none"]

NoPlan ==
    [assignments |-> <<>>, metrics |-> <<>>, warnings |-> {},
     sprint_allocated |-> <<>>, order |-> <<>>, error |-> "none"]

InitPI ==
    /\ DAUnused /\ TAUnused /\ SGUnused /\ SPUnused /\ WBUnused /\ SSUnused /\ RCUnused
    /\ pc = "idle"
    /\ pi_in \in [features : Features, dependencies : DependencyLists, sprints : {<<>>}]
    /\ pi_out = NoPlan

\* POST /api/ml/pi/optimize with the sprints of the program increment
Optimize(sprints) ==
    /\ pc = "idle"
    /\ pc' = "done"
    /\ pi_in' = [pi_in EXCEPT !.sprints = sprints]
    /\ pi_out' = optimize(pi_in.features, sprints, pi_in.dependencies)
    /\ UNCHANGED <<ss_vars, rc_vars, wb_vars, sl_vars, da_vars, ta_vars, sg_vars, sp_vars>>

NextPI == \E sprints \in Sprints : Optimize(sprints)

SpecPI == InitPI /\ [][NextPI]_vars

(***************************************************************************)
(* Properties of PIOptimizer                                               *)
(***************************************************************************)
PIGraph == build_dependency_graph(pi_in.dependencies)

\* the features reachable from f along one or more dependency edges
RECURSIVE ReachFrom(_, _, _)
ReachFrom(graph, frontier, seen) ==
    LET next == UNION {Range(GraphGet(graph, x)) : x \in frontier} \ seen
    IN IF next = {} THEN seen ELSE ReachFrom(graph, next, seen \cup next)

DependsTransitively(graph, f) == ReachFrom(graph, {f}, {})
Acyclic(graph) == \A f \in DOMAIN graph : f \notin DependsTransitively(graph, f)

PlanSprintOf(fid) ==
    {pi_out.assignments[i].sprintId :
        i \in {k \in DOMAIN pi_out.assignments : pi_out.assignments[k].featureId = fid}}

\* C1: in a plan for an acyclic dependency set, every feature sits in a sprint
\* at the same or a later position than the sprint of each of its dependencies.
C1_DependencyBucketOrdering ==
    (pc = "done" /\ Acyclic(PIGraph)) =>
        \A f \in FeatureIds : \A d \in Range(PIGraph[f]) :
            \A sf \in PlanSprintOf(f) : \A sd \in PlanSprintOf(d) : sf >= sd

\* C4: when the dependency edges contain a directed cycle, optimize surfaces a
\* cycle error and returns no plan.
C4_CycleSurfaced ==
    (pc = "done" /\ ~Acyclic(PIGraph)) =>
        (pi_out.error = "cycle" /\ pi_out.assignments = <<>>)

\* C5: no feature id appears in more than one assignment of a returned plan,
\* whatever the dependency edges (cyclic ones and unknown ids included).
C5_AssignmentUniqueness ==
    pc = "done" =>
        \A i, j \in DOMAIN pi_out.assignments :
            i # j => pi_out.assignments[i].featureId # pi_out.assignments[j].featureId

C5_Witness ==
    /\ pc = "done"
    /\ ~Acyclic(PIGraph)
    /\ Len(pi_out.assignments) = NumFeatures

\* the points of the assignments placed in sprint s, summed over their positions
RECURSIVE SumOverIndices(_, _)
SumOverIndices(assignments, idx) ==
    IF idx = {} THEN 0
    ELSE LET i == CHOOSE x \in idx : TRUE
         IN assignments[i].points + SumOverIndices(assignments, idx \ {i})

AssignedPoints(s) ==
    SumOverIndices(pi_out.assignments,
                   {i \in DOMAIN pi_out.assignments : pi_out.assignments[i].sprintId = s})

\* C6: for every sprint, the reported allocated equals the sum of the points of
\* the assignments of that sprint and equals the allocator's running total.
C6_AllocatedMatchesAssignments ==
    pc = "done" =>
        \A s \in SprintIds :
            /\ pi_out.metrics[s].allocated = AssignedPoints(s)
            /\ pi_out.metrics[s].allocated = pi_out.sprint_allocated[s]

C6_Witness ==
    /\ pc = "done"
    /\ \E s, t \in SprintIds :
        /\ s # t
        /\ Cardinality({i \in DOMAIN pi_out.assignments :
                            pi_out.assignments[i].sprintId = s}) >= 2
        /\ pi_out.metrics[t].allocated > 0

\* C7: a sprint has an overload warning exactly when its allocated points exceed
\* its capacity; the overload is allocated - capacity and the severity is high
\* exactly when the overload is strictly more than 20% of the capacity.
C7_OverloadWarnings ==
    pc = "done" =>
        /\ \A s \in SprintIds :
            (\E w \in pi_out.warnings : w.sprintId = s)
                <=> AssignedPoints(s) > pi_in.sprints[s]
        /\ \A w \in pi_out.warnings :
            /\ w.allocated = AssignedPoints(w.sprintId)
            /\ w.capacity = pi_in.sprints[w.sprintId]
            /\ w.overload = w.allocated - w.capacity
            /\ w.severity = (IF 5 * w.overload > w.capacity THEN "high" ELSE "medium")
        /\ \A w1, w2 \in pi_out.warnings : w1.sprintId = w2.sprintId => w1 = w2

C7_Witness ==
    /\ pc = "done"
    /\ \E w \in pi_out.warnings : w.severity = "medium" /\ 5 * w.overload = w.capacity
    /\ \E s \in SprintIds : \A w \in pi_out.warnings : w.sprintId # s

(***************************************************************************)
(* DependencyAnalyzer                                                      *)
(***************************************************************************)
\* bounds of the analyzed task sets
MaxEdges == 3
MaxDuration == 2
MaxMutatingCalls == 2

TaskIds == {1, 2, 3}
UnknownTask == 0
NumTasks == Cardinality(TaskIds)
GraphNodes == TaskIds \cup {UnknownTask}

\* the tasks in list order (the insertion order of self.tasks)
TaskList == [i \in 1..NumTasks |-> i]

\* a set of ids as the list that names them in ascending order
RECURSIVE AscendingList(_)
AscendingList(S) ==
    IF S = {} THEN <<>>
    ELSE LET m == CHOOSE x \in S : \A y \in S : x <= y
         IN <<m>> \o AscendingList(S \ {m})

TaskSets ==
    {t \in [TaskIds -> [dependencies : SUBSET GraphNodes, duration : 1..MaxDuration]] :
        SumSeq([i \in 1..NumTasks |-> Cardinality(t[i].dependencies)]) <= MaxEdges}

\* task.get("dependencies", [])
DependencyList(tasks, t) == AscendingList(tasks[t].dependencies)

\* _build_graph: node -> the tasks that depend on it, in list order
build_graph(tasks) ==
    [d \in GraphNodes |->
        AscendingList({t \in TaskIds : d \in tasks[t].dependencies})]

\* the keys of self.graph in insertion order
RECURSIVE graph_keys_from(_, _, _)
graph_keys_from(tasks, t, keys) ==
    IF t > NumTasks THEN keys
    ELSE LET deps == DependencyList(tasks, t)
             fresh == SelectSeq(deps, LAMBDA d : d \notin Range(keys))
         IN graph_keys_from(tasks, t + 1, keys \o fresh)

graph_keys(tasks) == graph_keys_from(tasks, 1, <<>>)

\* _calculate_in_degrees; a task without an entry reads as 0
calculate_in_degrees(graph) ==
    [t \in TaskIds |-> Cardinality({d \in GraphNodes : t \in Range(graph[d])})]

\* detect_cycles: the nested dfs; found is its return value
RECURSIVE dfs(_, _, _), dfs_neighbors(_, _, _, _, _)
dfs(graph, node, st) ==
    dfs_neighbors(graph, node, graph[node], 1,
                  [found |-> FALSE,
                   visited |-> st.visited \cup {node},
                   rec_stack |-> st.rec_stack \cup {node}])

dfs_neighbors(graph, node, neighbors, i, st) ==
    IF i > Len(neighbors)
    THEN [st EXCEPT !.rec_stack = @ \ {node}]
    ELSE IF neighbors[i] \notin st.visited
         THEN LET r == dfs(graph, neighbors[i], st)
              IN IF r.found THEN r
                 ELSE dfs_neighbors(graph, node, neighbors, i + 1, r)
         ELSE IF neighbors[i] \in st.rec_stack
              THEN [st EXCEPT !.found = TRUE]
              ELSE dfs_neighbors(graph, node, neighbors, i + 1, st)

RECURSIVE detect_cycles_from(_, _, _, _)
detect_cycles_from(graph, keys, i, st) ==
    IF i > Len(keys) THEN FALSE
    ELSE IF keys[i] \in st.visited
         THEN detect_cycles_from(graph, keys, i + 1, st)
         ELSE LET r == dfs(graph, keys[i], st)
              IN IF r.found THEN TRUE
                 ELSE detect_cycles_from(graph, keys, i + 1, r)

\* detect_cycles: a boolean
detect_cycles(tasks) ==
    detect_cycles_from(build_graph(tasks), graph_keys(tasks), 1,
                       [found |-> FALSE, visited |-> {}, rec_stack |-> {}])

\* deque([node for node in self.tasks if in_degree.get(node, 0) == 0])
zero_in_degree_queue(in_degree) ==
    SelectSeq(TaskList, LAMBDA t : in_degree[t] = 0)

\* lines 61-64 and 100-104: in_degree[neighbor] -= 1, enqueue on reaching 0
RECURSIVE release_neighbors(_, _, _, _)
release_neighbors(neighbors, i, in_degree, queue) ==
    IF i > Len(neighbors) THEN [in_degree |-> in_degree, queue |-> queue]
    ELSE LET n == neighbors[i]
             d == in_degree[n] - 1
         IN release_neighbors(neighbors, i + 1, [in_degree EXCEPT ![n] = d],
                              IF d = 0 THEN Append(queue, n) ELSE queue)

\* lines 57-64: the loop of Kahn's algorithm
RECURSIVE kahn(_, _, _, _)
kahn(graph, queue, topo_order, in_degree) ==
    IF queue = <<>> THEN topo_order
    ELSE LET current == Head(queue)
             r == release_neighbors(graph[current], 1, in_degree, Tail(queue))
         IN kahn(graph, r.queue, Append(topo_order, current), r.in_degree)

\* line 66: the test that raises ValueError("Cycle detected in dependencies")
OrderIsIncomplete(topo_order) == Len(topo_order) # NumTasks

\* topological_sort: works on a copy of self.in_degree
topological_sort(graph, in_degree) ==
    LET topo_order == kahn(graph, zero_in_degree_queue(in_degree), <<>>, in_degree)
    IN IF OrderIsIncomplete(topo_order)
       THEN [kind |-> "ValueError", value |-> <<>>]
       ELSE [kind |-> "ok", value |-> topo_order]

\* lines 76-84 for one neighbour of node: the longest-distance relaxation
relax_distance(tasks, node, n, st) ==
    IF n \notin st.reached \/ st.distances[n] < st.distances[node] + tasks[n].duration
    THEN [reached |-> st.reached \cup {n},
          distances |-> [st.distances EXCEPT ![n] = st.distances[node] + tasks[n].duration],
          predecessors |-> [st.predecessors EXCEPT ![n] = node]]
    ELSE st

RECURSIVE relax_neighbors(_, _, _, _, _)
relax_neighbors(tasks, node, neighbors, i, st) ==
    IF i > Len(neighbors) THEN st
    ELSE relax_neighbors(tasks, node, neighbors, i + 1,
                         relax_distance(tasks, node, neighbors[i], st))

\* lines 76-78: a node still at -inf starts at its own duration
start_distance(tasks, node, st) ==
    IF node \in st.reached THEN st
    ELSE [st EXCEPT !.reached = @ \cup {node},
                    !.distances = [@ EXCEPT ![node] = tasks[node].duration]]

RECURSIVE longest_distances(_, _, _, _, _)
longest_distances(tasks, graph, topo_order, i, st) ==
    IF i > Len(topo_order) THEN st
    ELSE LET node == topo_order[i]
         IN longest_distances(tasks, graph, topo_order, i + 1,
                relax_neighbors(tasks, node, graph[node], 1, start_distance(tasks, node, st)))

\* max(distances, key=distances.get): the first task with the largest distance
end_of_longest(distances) ==
    CHOOSE t \in TaskIds :
        /\ \A u \in TaskIds : distances[u] <= distances[t]
        /\ \A u \in TaskIds : distances[u] = distances[t] => t <= u

\* lines 87-92: walk the predecessors back from end_node (0 stands for None);
\* a predecessor chain that closes on itself never ends
RECURSIVE walk_back(_, _, _)
walk_back(predecessors, end_node, path) ==
    IF end_node = 0 THEN [kind |-> "ok", value |-> path]
    ELSE IF Len(path) > NumTasks THEN [kind |-> "diverges", value |-> <<>>]
    ELSE walk_back(predecessors, predecessors[end_node], <<end_node>> \o path)

\* critical_path
critical_path(tasks, graph, in_degree) ==
    LET topo == topological_sort(graph, in_degree)
        st == longest_distances(tasks, graph, topo.value, 1,
                  [reached |-> {},
                   distances |-> [t \in TaskIds |-> 0],
                   predecessors |-> [t \in TaskIds |-> 0]])
    IN IF topo.kind # "ok" THEN topo
       ELSE walk_back(st.predecessors, end_of_longest(st.distances), <<>>)

\* reading level[k] of the defaultdict creates the key k
touch_level(level, k) ==
    IF k \in Range(level.keys) THEN level
    ELSE [level EXCEPT !.keys = Append(@, k)]

\* line 101: level[neighbor] = max(level[neighbor], level[node] + 1)
raise_level(level, node, n) ==
    LET touched == touch_level(touch_level(level, n), node)
        old == touched.val[n]
        new == touched.val[node] + 1
    IN [touched EXCEPT !.val = [@ EXCEPT ![n] = IF old >= new THEN old ELSE new]]

RECURSIVE level_neighbors(_, _, _, _)
level_neighbors(node, neighbors, i, st) ==
    IF i > Len(neighbors) THEN st
    ELSE LET n == neighbors[i]
             d == st.in_degree[n] - 1
         IN level_neighbors(node, neighbors, i + 1,
                [level |-> raise_level(st.level, node, n),
                 in_degree |-> [st.in_degree EXCEPT ![n] = d],
                 queue |-> IF d = 0 THEN Append(st.queue, n) ELSE st.queue])

RECURSIVE level_loop(_, _)
level_loop(graph, st) ==
    IF st.queue = <<>> THEN st
    ELSE LET node == Head(st.queue)
         IN level_loop(graph,
                level_neighbors(node, graph[node], 1, [st EXCEPT !.queue = Tail(@)]))

\* lines 106-110: the nodes of the level dict grouped by level, lowest first
group_by_level(level) ==
    LET lvls == {level.val[k] : k \in Range(level.keys)}
        ordered == AscendingList(lvls)
    IN [i \in 1..Len(ordered) |->
            SelectSeq(level.keys, LAMBDA k : level.val[k] = ordered[i])]

\* parallel_execution: decrements self.in_degree itself, not a copy
parallel_execution(graph, in_degree) ==
    LET st == level_loop(graph,
                  [level |-> [keys |-> <<>>, val |-> [t \in TaskIds |-> 0]],
                   in_degree |-> in_degree,
                   queue |-> zero_in_degree_queue(in_degree)])
    IN [value |-> group_by_level(st.level), in_degree |-> st.in_degree]

\* impact_analysis: the nested dfs collecting the dependents
RECURSIVE impact_dfs(_, _, _), impact_neighbors(_, _, _, _)
impact_dfs(graph, current, affected) ==
    impact_neighbors(graph, graph[current], 1, affected)

impact_neighbors(graph, neighbors, i, affected) ==
    IF i > Len(neighbors) THEN affected
    ELSE IF neighbors[i] \in affected
         THEN impact_neighbors(graph, neighbors, i + 1, affected)
         ELSE impact_neighbors(graph, neighbors, i + 1,
                  impact_dfs(graph, neighbors[i], affected \cup {neighbors[i]}))

impact_analysis(graph, task_id) == impact_dfs(graph, task_id, {})

\* analyze: the error dict on a detected cycle, else the four results; an
\* exception of topological_sort or critical_path leaves analyze at once
analyze(tasks, in_degree) ==
    LET graph == build_graph(tasks)
        topo == topological_sort(graph, in_degree)
        path == critical_path(tasks, graph, in_degree)
        par == parallel_execution(graph, in_degree)
    IN IF detect_cycles(tasks)
       THEN [kind |-> "error_dict", value |-> "Cycle detected; please resolve before scheduling",
             in_degree |-> in_degree]
       ELSE IF topo.kind # "ok"
       THEN [kind |-> topo.kind, value |-> <<>>, in_degree |-> in_degree]
       ELSE IF path.kind # "ok"
       THEN [kind |-> path.kind, value |-> <<>>, in_degree |-> in_degree]
       ELSE [kind |-> "ok",
             value |-> [topological_order |-> topo.value,
                        critical_path |-> path.value,
                        parallel_execution |-> par.value,
                        impact_analysis |-> impact_analysis(graph, TaskList[1])],
             in_degree |-> par.in_degree]

DAGraph == build_graph(da_tasks)

NoResult == [op |-> "none", kind |-> "none", value |-> <<>>]

\* DependencyAnalyzer(tasks)
InitDA ==
    /\ PIUnused /\ TAUnused /\ SGUnused /\ SPUnused /\ WBUnused /\ SSUnused /\ RCUnused
    /\ pc = "idle"
    /\ da_tasks \in TaskSets
    /\ da_in_degree = calculate_in_degrees(build_graph(da_tasks))
    /\ da_out = NoResult
    /\ da_mutations = 0

DetectCycles ==
    /\ da_out' = [op |-> "detect_cycles", kind |-> "ok", value |-> detect_cycles(da_tasks)]
    /\ UNCHANGED <<ss_vars, rc_vars, wb_vars, sl_vars, pc, pi_vars, ta_vars, sg_vars, sp_vars, da_tasks, da_in_degree, da_mutations>>

TopologicalSort ==
    /\ da_out' = [op |-> "topological_sort"] @@ topological_sort(DAGraph, da_in_degree)
    /\ UNCHANGED <<ss_vars, rc_vars, wb_vars, sl_vars, pc, pi_vars, ta_vars, sg_vars, sp_vars, da_tasks, da_in_degree, da_mutations>>

CriticalPath ==
    /\ da_out' = [op |-> "critical_path"] @@ critical_path(da_tasks, DAGraph, da_in_degree)
    /\ UNCHANGED <<ss_vars, rc_vars, wb_vars, sl_vars, pc, pi_vars, ta_vars, sg_vars, sp_vars, da_tasks, da_in_degree, da_mutations>>

ParallelExecution ==
    /\ da_mutations < MaxMutatingCalls
    /\ LET r == parallel_execution(DAGraph, da_in_degree)
       IN /\ da_out' = [op |-> "parallel_execution", kind |-> "ok", value |-> r.value]
          /\ da_in_degree' = r.in_degree
    /\ da_mutations' = da_mutations + 1
    /\ UNCHANGED <<ss_vars, rc_vars, wb_vars, sl_vars, pc, pi_vars, ta_vars, sg_vars, sp_vars, da_tasks>>

ImpactAnalysis(task_id) ==
    /\ da_out' = [op |-> "impact_analysis", kind |-> "ok",
                  value |-> impact_analysis(DAGraph, task_id)]
    /\ UNCHANGED <<ss_vars, rc_vars, wb_vars, sl_vars, pc, pi_vars, ta_vars, sg_vars, sp_vars, da_tasks, da_in_degree, da_mutations>>

Analyze ==
    /\ LET r == analyze(da_tasks, da_in_degree)
       IN /\ r.kind = "ok" => da_mutations < MaxMutatingCalls
          /\ da_out' = [op |-> "analyze", kind |-> r.kind, value |-> r.value]
          /\ da_in_degree' = r.in_degree
          /\ da_mutations' = IF r.kind = "ok" THEN da_mutations + 1 ELSE da_mutations
    /\ UNCHANGED <<ss_vars, rc_vars, wb_vars, sl_vars, pc, pi_vars, ta_vars, sg_vars, sp_vars, da_tasks>>

NextDA ==
    \/ DetectCycles
    \/ TopologicalSort
    \/ CriticalPath
    \/ ParallelExecution
    \/ \E t \in TaskIds : ImpactAnalysis(t)
    \/ Analyze

SpecDA == InitDA /\ [][NextDA]_vars

(***************************************************************************)
(* Properties of DependencyAnalyzer                                        *)
(***************************************************************************)
\* the tasks that t depends on, directly or through other tasks
RECURSIVE DepsClosure(_, _, _)
DepsClosure(tasks, frontier, seen) ==
    LET next == UNION {tasks[x].dependencies : x \in frontier \cap TaskIds} \ seen
    IN IF next = {} THEN seen ELSE DepsClosure(tasks, next, seen \cup next)

HasDirectedCycle(tasks) == \E t \in TaskIds : t \in DepsClosure(tasks, {t}, {})
AllDependenciesKnown(tasks) == \A t \in TaskIds : tasks[t].dependencies \subseteq TaskIds

IndexIn(order, t) == CHOOSE i \in DOMAIN order : order[i] = t

\* C2: for an acyclic task set whose dependencies are all tasks of the set,
\* topological_sort returns every task exactly once, each dependency at a
\* strictly smaller index than its dependents.
C2_TopologicalOrder ==
    (da_out.op = "topological_sort"
        /\ ~HasDirectedCycle(da_tasks) /\ AllDependenciesKnown(da_tasks)) =>
        /\ da_out.kind = "ok"
        /\ Len(da_out.value) = NumTasks
        /\ Range(da_out.value) = TaskIds
        /\ \A b \in TaskIds : \A a \in da_tasks[b].dependencies :
               IndexIn(da_out.value, a) < IndexIn(da_out.value, b)

\* C3: for a task set whose dependency graph has a directed cycle,
\* topological_sort never returns an order, it raises the cycle error.
C3_CycleRaises ==
    (da_out.op = "topological_sort" /\ HasDirectedCycle(da_tasks)) =>
        da_out.kind = "ValueError"

(***************************************************************************)
(* TaskAssignmentModel: scoring one developer for one task                 *)
(*                                                                         *)
(* Scores are exact rationals kept as integers in units of 1 / Unit; the  *)
(* inputs are chosen so that every product and quotient below is exact.   *)
(***************************************************************************)
Unit == 270000

Pct(n) == (n * Unit) \div 100

\* str.lower() on the skill names of the model
Lower(skill) == IF skill = "PY" THEN "py" ELSE skill

RequiredSkillSets == SUBSET {"py", "js"}
DeveloperSkillSets == SUBSET {"PY", "js"}
\* the common_skills keywords found in the task description ({}: none or no description)
DescriptionSkillSets == {{}, {"js"}}
Complexities == {"low", "medium", "high"}

ScoredTasks ==
    [required_skills : RequiredSkillSets,
     description_skills : DescriptionSkillSets,
     complexity : {"medium", "high"}]

\* probability_source: "heuristic" when no trained model is loaded, else the
\* value predict_proba returns, in percent
ScoredDevelopers ==
    [skills : DeveloperSkillSets,
     capacity : {0, 40},
     current_workload : {0, 10, 24, 38},
     has_completion_rate : BOOLEAN,
     completion_rate : {0, Unit},
     on_time_delivery : {0, Unit},
     time_tracking_consistency : {0, Unit},
     complexity_handled : {"low", "medium"},
     collaboration_index : {0, Pct(50)}]

ProbabilitySources == {"heuristic", "p0", "p10", "p100"}

Clamp(x, lo, hi) == IF x < lo THEN lo ELSE IF x > hi THEN hi ELSE x

\* lines 208-221: the required skills, taken from the description when none given
effective_required_skills(task) ==
    IF task.required_skills = {} /\ task.description_skills # {}
    THEN task.description_skills
    ELSE task.required_skills

\* calculate_skill_match
calculate_skill_match(required_skills, developer_skills) ==
    LET required == {Lower(x) : x \in required_skills}
        developer == {Lower(x) : x \in developer_skills}
        intersection == Cardinality(required \cap developer)
        union == Cardinality(required \cup developer)
        match_score == (intersection * Unit) \div union
    IN IF required_skills = {} THEN Pct(50)
       ELSE IF developer = {} THEN Pct(20)
       ELSE IF union = 0 THEN Pct(20)
       ELSE IF match_score > Pct(20) THEN match_score ELSE Pct(20)

DefaultCapacity == 40

\* calculate_workload_score: capacity and utilization
workload_capacity(developer) ==
    IF developer.capacity # 0 THEN developer.capacity ELSE DefaultCapacity

workload_utilization(developer) ==
    (developer.current_workload * Unit) \div workload_capacity(developer)

\* calculate_workload_score: the score
calculate_workload_score(developer) ==
    LET utilization == workload_utilization(developer)
        score == Unit - utilization
        scaled == IF utilization >= Pct(90) THEN (score * 2) \div 10
                  ELSE IF utilization <= Pct(50) THEN (score * 12) \div 10
                  ELSE IF utilization <= Pct(30) THEN (score * 13) \div 10
                  ELSE score
    IN Clamp(scaled, 0, Unit)

\* developer.get("completion_rate", default)
completion_rate_or(developer, default) ==
    IF developer.has_completion_rate THEN developer.completion_rate ELSE default

\* calculate_performance_score; quality_score is absent and reads as 0.5
calculate_performance_score(developer) ==
    (completion_rate_or(developer, Pct(50)) + developer.on_time_delivery + Pct(50)) \div 3

\* calculate_time_pattern_score; time_logging_variance is absent and reads as 0.3
calculate_time_pattern_score(developer) ==
    Clamp(developer.time_tracking_consistency - (2 * Pct(30)) \div 10, 0, Unit)

complexity_map(c) ==
    CASE c = "low" -> Pct(30) [] c = "medium" -> Pct(60) [] c = "high" -> Pct(90)
      [] OTHER -> Pct(60)

Abs(x) == IF x < 0 THEN -x ELSE x

\* _calculate_complexity_alignment
calculate_complexity_alignment(task_complexity, developer) ==
    Unit - Abs(complexity_map(developer.complexity_handled) - complexity_map(task_complexity))

\* _complexity_to_numeric
complexity_to_numeric(c) ==
    CASE c = "low" -> Pct(20) [] c = "medium" -> Pct(50) [] c = "high" -> Pct(80)
      [] OTHER -> Pct(50)

\* developer.get("time_accuracy", 0.0)
time_accuracy_of(developer) ==
    IF "time_accuracy" \in DOMAIN developer THEN developer.time_accuracy ELSE 0

\* lines 232-244: the sum of the nine entries of the feature vector; velocity
\* is absent and reads as 0
feature_sum(task, developer, skill_match, utilization) ==
    skill_match
    + Cardinality(developer.skills) * Unit
    + utilization
    + developer.capacity * Unit
    + 0
    + completion_rate_or(developer, 0)
    + time_accuracy_of(developer)
    + developer.collaboration_index
    + complexity_to_numeric(task.complexity)

\* _predict_probability: the mean of the features when no model is loaded,
\* else whatever the loaded classifier predicts
predict_probability(source, features) ==
    CASE source = "heuristic" -> features \div 9
      [] source = "p0" -> 0
      [] source = "p10" -> Pct(10)
      [] source = "p100" -> Unit

\* lines 249-256
weighted_score_of(skill, performance, workload, time_pattern, complexity, collaboration) ==
    (30 * skill + 25 * performance + 20 * workload
     + 10 * time_pattern + 10 * complexity + 5 * collaboration) \div 100

\* the clamp without its upper bound
ClampConfidence_NoUpperBound(x) == IF x < Pct(30) THEN Pct(30) ELSE x

\* min(1.0, max(0.3, x)) of lines 265 and 268
ClampConfidence(x) == Clamp(x, Pct(30), Unit)

\* line 261: the sparse-data test
IsSparse(weighted_score, probability) ==
    weighted_score < Pct(20) /\ probability < Pct(20)

\* lines 261-268
confidence_of(weighted_score, probability) ==
    IF IsSparse(weighted_score, probability)
    THEN ClampConfidence(Pct(35) + (weighted_score * 30) \div 100)
    ELSE ClampConfidence((60 * weighted_score + 40 * probability) \div 100)

\* _score_developer: the fields of the recommendation the properties read
score_developer(task, developer, source) ==
    LET required_skills == effective_required_skills(task)
        skill_match == calculate_skill_match(required_skills, developer.skills)
        workload_score == calculate_workload_score(developer)
        utilization == workload_utilization(developer)
        performance_score == calculate_performance_score(developer)
        time_pattern_score == calculate_time_pattern_score(developer)
        complexity_alignment == calculate_complexity_alignment(task.complexity, developer)
        collaboration_score == developer.collaboration_index
        probability == predict_probability(source,
                            feature_sum(task, developer, skill_match, utilization))
        weighted_score == weighted_score_of(skill_match, performance_score, workload_score,
                              time_pattern_score, complexity_alignment, collaboration_score)
    IN [confidence |-> confidence_of(weighted_score, probability),
        skill_match_score |-> skill_match,
        performance_score |-> performance_score,
        workload_score |-> workload_score,
        workload_impact |-> utilization,
        required_skills |-> required_skills,
        weighted_score |-> weighted_score,
        probability |-> probability]

NoRecommendation ==
    [confidence |-> 0, skill_match_score |-> 0, performance_score |-> 0,
     workload_score |-> 0, workload_impact |-> 0, required_skills |-> {},
     weighted_score |-> 0, probability |-> 0]

InitTA ==
    /\ PIUnused /\ DAUnused /\ SGUnused /\ SPUnused /\ WBUnused /\ SSUnused /\ RCUnused
    /\ pc = "idle"
    /\ ta_in \in [task : ScoredTasks, developer : ScoredDevelopers, source : {"none"}]
    /\ ta_out = NoRecommendation

\* one call of _score_developer from get_recommendations
ScoreDeveloper(source) ==
    /\ pc = "idle"
    /\ pc' = "done"
    /\ ta_in' = [ta_in EXCEPT !.source = source]
    /\ ta_out' = score_developer(ta_in.task, ta_in.developer, source)
    /\ UNCHANGED <<ss_vars, rc_vars, wb_vars, sl_vars, pi_vars, da_vars, sg_vars, sp_vars>>

NextTA == \E source \in ProbabilitySources : ScoreDeveloper(source)

SpecTA == InitTA /\ [][NextTA]_vars

(***************************************************************************)
(* Properties of the scorer                                                *)
(***************************************************************************)

\* C8: whatever the task and the developer record, the confidence that
\* _score_developer computes lies in [0.3, 1.0], on the sparse-baseline
\* branch and on the normal branch alike, and calculate_skill_match lies in
\* [0.2, 1.0] whenever the task has at least one required skill.
C8_ConfidenceAndSkillMatchBounds ==
    pc = "done" =>
        /\ Pct(30) <= ta_out.confidence /\ ta_out.confidence <= Unit
        /\ \A required \in RequiredSkillSets \ {{}} :
               LET m == calculate_skill_match(required, ta_in.developer.skills)
               IN Pct(20) <= m /\ m <= Unit
        /\ ta_out.required_skills # {} =>
               Pct(20) <= ta_out.skill_match_score /\ ta_out.skill_match_score <= Unit

\* the sparse-baseline branch is taken for a task with required skills, and
\* the weighted formula without the clamp would leave the interval
C8_Witness ==
    /\ pc = "done"
    /\ ta_out.required_skills # {}
    /\ IsSparse(ta_out.weighted_score, ta_out.probability)
    /\ (60 * ta_out.weighted_score + 40 * ta_out.probability) \div 100 < Pct(30)
    /\ ta_out.confidence > Pct(30)

(***************************************************************************)
(* SprintAutoGenerator: assigning the generated tasks and rebalancing      *)
(***************************************************************************)
MaxWorkload == 2
MaxHours == 3
MaxTasks == 2

MemberIds == {1, 2, 3}
NumMembers == Cardinality(MemberIds)
MemberSkillSets == {{}, {"api"}, {"rest api"}}
TaskSkillSets == {{}, {"api"}}

\* the roster in list order; the members carry no capacity field
Rosters == [MemberIds -> [currentWorkload : 0..MaxWorkload, skills : MemberSkillSets]]
GeneratedTasks == [estimated_hours : 1..MaxHours, required_skills : TaskSkillSets]
GeneratedTaskLists == UNION {[1..n -> GeneratedTasks] : n \in 1..MaxTasks}

\* Python's `needle in hay` on the skill names of the model
Contains(hay, needle) == needle = hay \/ (needle = "api" /\ hay = "rest api")

\* member.get("capacity", 40) or member.get("availability", 40) or 40
DefaultMemberCapacity == 40

\* lines 248-253: skill_match, in units of 1/200 after the 0.6 weight
skill_match_part(task, member) ==
    LET required_skills == task.required_skills
        member_skills == {Lower(x) : x \in member.skills}
        matches == Cardinality({skill \in required_skills :
                       \E ms \in member_skills :
                           Contains(Lower(skill), ms) \/ Contains(ms, Lower(skill))})
    IN IF required_skills # {}
       THEN (120 * matches) \div Cardinality(required_skills)
       ELSE 60

\* lines 256-259: workload_score, in units of 1/200 after the 0.4 weight
workload_score_part(member) ==
    LET current_workload == member.currentWorkload
        capacity == DefaultMemberCapacity
        capped == IF current_workload > capacity THEN capacity ELSE current_workload
    IN (80 * (capacity - capped)) \div capacity

\* line 262
member_score(task, member) == skill_match_part(task, member) + workload_score_part(member)

\* lines 245-268: the loop over the roster, the first of the best winning
RECURSIVE find_best_from(_, _, _, _, _)
find_best_from(task, team_members, i, best_member, best_score) ==
    IF i > NumMembers THEN best_member
    ELSE LET score == member_score(task, team_members[i])
         IN IF score > best_score
            THEN find_best_from(task, team_members, i + 1, i, score)
            ELSE find_best_from(task, team_members, i + 1, best_member, best_score)

\* _find_best_member_for_task
find_best_member_for_task(task, team_members) ==
    find_best_from(task, team_members, 1, 0, -200)

\* _assign_tasks_to_team, the stories' task lists laid end to end
assign_tasks_to_team(tasks, team_members) ==
    [k \in DOMAIN tasks |->
        [task |-> tasks[k],
         assigned_to |-> find_best_member_for_task(tasks[k], team_members),
         reason |-> "assigned"]]

RECURSIVE hours_assigned(_, _, _)
hours_assigned(plan, member_id, k) ==
    IF k > Len(plan) THEN 0
    ELSE (IF plan[k].assigned_to = member_id THEN plan[k].task.estimated_hours ELSE 0)
         + hours_assigned(plan, member_id, k + 1)

\* lines 289-297: member_workload before any move
planned_workload(plan, team_members) ==
    [m \in MemberIds |-> team_members[m].currentWorkload + hours_assigned(plan, m, 1)]

RECURSIVE SumLoads(_, _)
SumLoads(member_workload, i) ==
    IF i > NumMembers THEN 0 ELSE member_workload[i] + SumLoads(member_workload, i + 1)

\* line 307: member_workload[member_id] > avg_workload * 1.2
IsAboveAverage(load, total) == 5 * NumMembers * load > 6 * total

\* lines 309-312: min() over the roster, the first of the least loaded
less_loaded_member(member_workload) ==
    CHOOSE m \in MemberIds :
        /\ \A o \in MemberIds : member_workload[m] <= member_workload[o]
        /\ \A o \in MemberIds : member_workload[o] = member_workload[m] => m <= o

\* lines 316-322: may the least loaded member take the task
has_required_skills(task, member) ==
    LET less_loaded_skills == {Lower(x) : x \in member.skills}
    IN \/ task.required_skills = {}
       \/ \E skill \in task.required_skills :
              \/ Lower(skill) \in less_loaded_skills
              \/ \E ls \in less_loaded_skills : Contains(Lower(skill), ls)

\* lines 324-331: the reassignment and the update of the running loads
reassign(plan, member_workload, k, to) ==
    LET from == plan[k].assigned_to
        task_hours == plan[k].task.estimated_hours
        taken == [member_workload EXCEPT ![from] = @ - task_hours]
    IN [plan |-> [plan EXCEPT ![k].assigned_to = to, ![k].reason = "Rebalanced workload"],
        member_workload |-> [taken EXCEPT ![to] = @ + task_hours]]

\* lines 303-331: one pass over the plan
RECURSIVE balance_loop(_, _, _, _, _)
balance_loop(plan, team_members, member_workload, total, k) ==
    IF k > Len(plan) THEN [plan |-> plan, member_workload |-> member_workload]
    ELSE LET less_loaded == less_loaded_member(member_workload)
             moved == reassign(plan, member_workload, k, less_loaded)
         IN IF /\ IsAboveAverage(member_workload[plan[k].assigned_to], total)
               /\ has_required_skills(plan[k].task, team_members[less_loaded])
            THEN balance_loop(moved.plan, team_members, moved.member_workload, total, k + 1)
            ELSE balance_loop(plan, team_members, member_workload, total, k + 1)

\* _balance_workload
balance_workload(plan, team_members) ==
    LET member_workload == planned_workload(plan, team_members)
    IN balance_loop(plan, team_members, member_workload, SumLoads(member_workload, 1), 1).plan

\* WorkloadBalancer.calculate_balance_score: min(workload / capacity, 1.0),
\* in units of 1 / DefaultMemberCapacity
clamped_utilization(load) ==
    IF load > DefaultMemberCapacity THEN DefaultMemberCapacity ELSE load

RECURSIVE SumSquares(_, _)
SumSquares(workloads, i) ==
    IF i > NumMembers THEN 0 ELSE workloads[i] * workloads[i] + SumSquares(workloads, i + 1)

\* np.var of the clamped utilizations, times NumMembers^2 * DefaultMemberCapacity^2
utilization_variance(plan, team_members) ==
    LET loads == planned_workload(plan, team_members)
        workloads == [m \in MemberIds |-> clamped_utilization(loads[m])]
    IN NumMembers * SumSquares(workloads, 1) - SumLoads(workloads, 1) * SumLoads(workloads, 1)

InitSG ==
    /\ PIUnused /\ DAUnused /\ TAUnused /\ SPUnused /\ WBUnused /\ SSUnused /\ RCUnused
    /\ pc = "idle"
    /\ sg_team \in Rosters
    /\ sg_tasks = <<>>
    /\ sg_assigned = <<>>
    /\ sg_balanced = <<>>

\* generate_plan, from the generated tasks on: assignment, then rebalancing
GeneratePlan(tasks) ==
    /\ pc = "idle"
    /\ pc' = "done"
    /\ sg_tasks' = tasks
    /\ sg_assigned' = assign_tasks_to_team(tasks, sg_team)
    /\ sg_balanced' = balance_workload(assign_tasks_to_team(tasks, sg_team), sg_team)
    /\ UNCHANGED <<ss_vars, rc_vars, wb_vars, sl_vars, sg_team, pi_vars, da_vars, ta_vars, sp_vars>>

NextSG == \E tasks \in GeneratedTaskLists : GeneratePlan(tasks)

SpecSG == InitSG /\ [][NextSG]_vars

(***************************************************************************)
(* Properties of the rebalancing pass                                      *)
(***************************************************************************)

\* C9: for any plan and roster the variance of the per-member utilization
\* after the rebalancing pass is at most the variance before it.
C9_RebalancingNeverIncreasesVariance ==
    pc = "done" =>
        utilization_variance(sg_balanced, sg_team) <= utilization_variance(sg_assigned, sg_team)

(***************************************************************************)
(* SprintPlannerModel: the sampling story selector                         *)
(*                                                                         *)
(* random.shuffle and np.random.beta read the process-wide generators,    *)
(* which no argument of the selector sets: a shuffle is any permutation   *)
(* and a beta draw falls on either side of 0.4.                           *)
(***************************************************************************)
MaxStoryPoints == 2
MaxTeamCapacity == 3
Iterations == 2

StoryIds == {1, 2}
Stories ==
    [story_points : 1..MaxStoryPoints,
     priority : {"high", "low"},
     complexity : {"low", "high"},
     blocked_by : BOOLEAN,
     dependencies : SUBSET StoryIds]
\* the backlogs whose stories depend only on stories listed before them
Backlogs ==
    {backlog \in [StoryIds -> Stories] :
        \A id \in StoryIds : \A d \in backlog[id].dependencies : d < id}

\* line 89: the stories that are not blocked
unblocked(backlog) == {id \in StoryIds : ~backlog[id].blocked_by}

\* the orders random.shuffle can leave a list of these stories in
Shuffles(ids) ==
    {order \in [1..Cardinality(ids) -> ids] :
        \A i, j \in 1..Cardinality(ids) : order[i] = order[j] => i = j}

\* the capacity test that forgets what is already selected
FitsCapacity_IgnoresTotal(total, points, capacity) == points <= capacity

\* line 117: total + points <= capacity
FitsCapacity(total, points, capacity) == total + points <= capacity

\* lines 112-119: the loop over the shuffled stories
RECURSIVE sample_loop(_, _, _, _, _, _, _)
sample_loop(backlog, capacity, order, accepted, k, selection, total) ==
    IF k > Len(order) THEN selection
    ELSE LET story == order[k]
             points == backlog[story].story_points
         IN IF FitsCapacity(total, points, capacity) /\ accepted[story]
            THEN sample_loop(backlog, capacity, order, accepted, k + 1,
                             Append(selection, story), total + points)
            ELSE sample_loop(backlog, capacity, order, accepted, k + 1, selection, total)

\* _thompson_sample for one shuffle and one beta draw per story (accepted:
\* the draw exceeded 0.4); the empty selection stands for None
thompson_sample(backlog, capacity, order, accepted) ==
    sample_loop(backlog, capacity, order, accepted, 1, <<>>, 0)

\* everything one call of _thompson_sample can return
PossibleSamples(backlog, capacity) ==
    {thompson_sample(backlog, capacity, order, accepted) :
        order \in Shuffles(unblocked(backlog)),
        accepted \in [unblocked(backlog) -> BOOLEAN]}

\* the priority multiplier, in tenths
priority_multiplier(priority) ==
    CASE priority = "high" -> 15 [] priority = "medium" -> 10 [] priority = "low" -> 7
      [] OTHER -> 10

\* _calculate_value, in tenths; business_value is absent and reads as 1
RECURSIVE calculate_value(_, _, _)
calculate_value(backlog, selection, k) ==
    IF k > Len(selection) THEN 0
    ELSE priority_multiplier(backlog[selection[k]].priority)
         + calculate_value(backlog, selection, k + 1)

complexities(c) ==
    CASE c = "low" -> 2 [] c = "medium" -> 5 [] c = "high" -> 8 [] OTHER -> 5

\* the sum under the mean of _calculate_complexity_risk, in tenths
RECURSIVE complexity_sum(_, _, _)
complexity_sum(backlog, selection, k) ==
    IF k > Len(selection) THEN 0
    ELSE complexities(backlog[selection[k]].complexity)
         + complexity_sum(backlog, selection, k + 1)

\* lines 98-101: the sort key (value, -risk) of a before that of b
KeyGreater(backlog, a, b) ==
    LET va == calculate_value(backlog, a, 1)
        vb == calculate_value(backlog, b, 1)
    IN \/ va > vb
       \/ /\ va = vb
          /\ complexity_sum(backlog, a, 1) * Len(b) < complexity_sum(backlog, b, 1) * Len(a)

\* list.sort(reverse=True): descending, equal keys keeping their order
RECURSIVE insert_sorted(_, _, _, _)
insert_sorted(backlog, sorted, selection, k) ==
    IF k > Len(sorted) THEN Append(sorted, selection)
    ELSE IF KeyGreater(backlog, selection, sorted[k])
         THEN SubSeq(sorted, 1, k - 1) \o <<selection>> \o SubSeq(sorted, k, Len(sorted))
         ELSE insert_sorted(backlog, sorted, selection, k + 1)

RECURSIVE sort_best_sets(_, _, _, _)
sort_best_sets(backlog, best_sets, k, sorted) ==
    IF k > Len(best_sets) THEN sorted
    ELSE sort_best_sets(backlog, best_sets, k + 1, insert_sorted(backlog, sorted, best_sets[k], 1))

\* best_sets[:5]
ShortlistLength == 5

\* lines 92-95: the samples that are not None, in the order drawn
RECURSIVE collect_samples(_, _)
collect_samples(samples, k) ==
    IF k > Len(samples) THEN <<>>
    ELSE (IF samples[k] # <<>> THEN <<samples[k]>> ELSE <<>>) \o collect_samples(samples, k + 1)

\* optimize_story_selection for the given outcomes of its sampling calls
optimize_story_selection(backlog, samples) ==
    LET best_sets == collect_samples(samples, 1)
        ranked == sort_best_sets(backlog, best_sets, 1, <<>>)
    IN SubSeq(ranked, 1, IF Len(ranked) < ShortlistLength THEN Len(ranked) ELSE ShortlistLength)

InitSP ==
    /\ PIUnused /\ DAUnused /\ TAUnused /\ SGUnused /\ WBUnused /\ SSUnused /\ RCUnused
    /\ pc = "idle"
    /\ sp_in \in [backlog : Backlogs, capacity : 1..MaxTeamCapacity]
    /\ sp_results = <<>>

\* one call of optimize_story_selection; a second call gets the same arguments
OptimizeStorySelection(samples) ==
    /\ pc \in {"idle", "once"}
    /\ pc' = IF pc = "idle" THEN "once" ELSE "twice"
    /\ sp_results' = Append(sp_results, optimize_story_selection(sp_in.backlog, samples))
    /\ UNCHANGED <<ss_vars, rc_vars, wb_vars, sl_vars, sp_in, pi_vars, da_vars, ta_vars, sg_vars>>

NextSP ==
    \E samples \in [1..Iterations -> PossibleSamples(sp_in.backlog, sp_in.capacity)] :
        OptimizeStorySelection(samples)

SpecSP == InitSP /\ [][NextSP]_vars

(***************************************************************************)
(* Properties of the selector                                              *)
(***************************************************************************)

\* C10: two runs of the selector on the same backlog, capacity and roster
\* (and seed) return the same ranked shortlist, the same subsets in the same
\* order.
C10_SelectorDeterminism ==
    pc = "twice" => sp_results[1] = sp_results[2]

(***************************************************************************)
(* SprintPlannerModel.calculate_sprint_load: assigning the selected        *)
(* stories to the team                                                     *)
(***************************************************************************)
MaxMemberCapacity == 2
MaxMemberLoad == 2
MaxEstimate == 2
MaxItems == 2

TeamSizes == {0, 1, 2}
TeamMembers ==
    [capacity : 0..MaxMemberCapacity,
     current_workload : 0..MaxMemberLoad,
     skills : {{}, {"py"}}]
\* the team in list order; a member's user_id is its position
Teams == UNION {[1..n -> TeamMembers] : n \in TeamSizes}

SelectedStories == [story_points : 1..MaxEstimate, required_skills : {{}, {"py"}}]
SelectedStoryLists == UNION {[1..n -> SelectedStories] : n \in 1..MaxItems}

\* _remaining_capacity
remaining_capacity(member) ==
    IF member.capacity - member.current_workload > 0
    THEN member.capacity - member.current_workload
    ELSE 0

\* _skill_match, in halves
planner_skill_match(required, skills) ==
    LET set_required == {Lower(x) : x \in required}
        set_skills == {Lower(x) : x \in skills}
    IN IF required = {} THEN 1
       ELSE IF set_skills = {} THEN 0
       ELSE (2 * Cardinality(set_required \cap set_skills)) \div Cardinality(set_required)

\* max(member.get("capacity", 1), 1)
capacity_floor(member) == IF member.capacity > 1 THEN member.capacity ELSE 1

\* line 168: score = 0.7 * skill_match + 0.3 * capacity_bonus, as the
\* fraction num / den of twice the score
assignee_score(story, member) ==
    [num |-> 7 * planner_skill_match(story.required_skills, member.skills) * capacity_floor(member)
             + 6 * remaining_capacity(member),
     den |-> capacity_floor(member)]

\* line 169: score > best_score
AssigneeScoreGreater(a, b) == a.num * b.den > b.num * a.den

\* lines 163-172: the loop over the members, 0 standing for None
RECURSIVE find_best_assignee_from(_, _, _, _, _)
find_best_assignee_from(story, members, i, best_candidate, best_score) ==
    IF i > Len(members) THEN best_candidate
    ELSE IF remaining_capacity(members[i]) < story.story_points
         THEN find_best_assignee_from(story, members, i + 1, best_candidate, best_score)
         ELSE LET score == assignee_score(story, members[i])
              IN IF AssigneeScoreGreater(score, best_score)
                 THEN find_best_assignee_from(story, members, i + 1, i, score)
                 ELSE find_best_assignee_from(story, members, i + 1, best_candidate, best_score)

\* _find_best_assignee
find_best_assignee(story, members) ==
    find_best_assignee_from(story, members, 1, 0, [num |-> -2, den |-> 1])

\* lines 146-147: the chosen member takes the story's points
take_story(members, user_id, story) ==
    [members EXCEPT ![user_id].current_workload = @ + story.story_points]

\* lines 141-157: the loop over the selected stories
RECURSIVE sprint_load_loop(_, _, _, _)
sprint_load_loop(stories, member_states, k, assignments) ==
    IF k > Len(stories) THEN [assignments |-> assignments, member_states |-> member_states]
    ELSE LET candidate == find_best_assignee(stories[k], member_states)
         IN IF candidate = 0
            THEN sprint_load_loop(stories, member_states, k + 1, assignments)
            ELSE sprint_load_loop(stories, take_story(member_states, candidate, stories[k]),
                     k + 1, Append(assignments, [story_id |-> k, suggested_assignee |-> candidate]))

\* calculate_sprint_load
calculate_sprint_load(selected_stories, team_members) ==
    sprint_load_loop(selected_stories, team_members, 1, <<>>)

NoSprintLoad == [assignments |-> <<>>, member_states |-> <<>>]

\* one call of calculate_sprint_load
CalculateSprintLoad(selected_stories) ==
    /\ pc = "idle"
    /\ pc' = "done"
    /\ sl_in' = [sl_in EXCEPT !.selected_stories = selected_stories]
    /\ sl_out' = calculate_sprint_load(selected_stories, sl_in.team_members)
    /\ UNCHANGED <<ss_vars, rc_vars, pi_vars, da_vars, ta_vars, sg_vars, sp_vars, wb_vars>>


(***************************************************************************)
(* WorkloadBalancer.balance_workload                                       *)
(*                                                                         *)
(* The balancer builds its own TaskAssignmentModel; no trained model is    *)
(* on disk, so _predict_probability takes its heuristic fallback.          *)
(***************************************************************************)
BalancedTasks ==
    [priority : {"high", "low"},
     estimated_story_points : 1..MaxEstimate,
     required_skills : {{}, {"py"}}]
\* the tasks in list order; a task's task_id is its position
BalancedTaskLists == UNION {[1..n -> BalancedTasks] : n \in 0..MaxItems}

\* the developer record _score_developer reads; the fields a team member
\* does not carry read as their defaults
as_developer(member) ==
    [skills |-> member.skills,
     capacity |-> member.capacity,
     current_workload |-> member.current_workload,
     has_completion_rate |-> FALSE,
     completion_rate |-> 0,
     on_time_delivery |-> Pct(50),
     time_tracking_consistency |-> Pct(50),
     complexity_handled |-> "medium",
     collaboration_index |-> Pct(50)]

\* the task record _score_developer reads
as_scored_task(task) ==
    [required_skills |-> task.required_skills, description_skills |-> {}, complexity |-> "medium"]

\* lines 178-181 of task_assignment.py: one recommendation per developer
recommendation_for(task, developers, user_id) ==
    LET rec == score_developer(as_scored_task(task), as_developer(developers[user_id]), "heuristic")
    IN [user_id |-> user_id, confidence |-> rec.confidence,
        skill_match_score |-> rec.skill_match_score]

\* recommendations.sort(key=confidence, reverse=True): descending, equal
\* confidences keeping their order
RECURSIVE insert_recommendation(_, _, _)
insert_recommendation(sorted, rec, k) ==
    IF k > Len(sorted) THEN Append(sorted, rec)
    ELSE IF rec.confidence > sorted[k].confidence
         THEN SubSeq(sorted, 1, k - 1) \o <<rec>> \o SubSeq(sorted, k, Len(sorted))
         ELSE insert_recommendation(sorted, rec, k + 1)

RECURSIVE sort_recommendations(_, _, _, _)
sort_recommendations(task, developers, i, sorted) ==
    IF i > Len(developers) THEN sorted
    ELSE sort_recommendations(task, developers, i + 1,
             insert_recommendation(sorted, recommendation_for(task, developers, i), 1))

\* get_recommendations(task, available_developers, top_n: int = 3)
TopN == 3

\* TaskAssignmentModel.get_recommendations
get_recommendations(task, available_developers) ==
    LET recommendations == sort_recommendations(task, available_developers, 1, <<>>)
    IN SubSeq(recommendations, 1, IF Len(recommendations) < TopN THEN Len(recommendations) ELSE TopN)

\* lines 71-74: may the member take one more task
FitsMember(member, rec) ==
    ~(\/ member.capacity <= 0
      \/ member.current_workload * Unit + rec.skill_match_score > member.capacity * Unit)

\* _select_best_fit, 0 standing for None
RECURSIVE select_best_fit(_, _, _)
select_best_fit(recs, team_state, k) ==
    IF k > Len(recs) THEN 0
    ELSE IF FitsMember(team_state[recs[k].user_id], recs[k]) THEN recs[k].user_id
         ELSE select_best_fit(recs, team_state, k + 1)

\* the order of the priority strings under Python's str comparison
priority_key(priority) ==
    CASE priority = "high" -> 1 [] priority = "low" -> 2 [] priority = "medium" -> 3 [] OTHER -> 0

\* sorted(tasks, key=priority, reverse=True): the task ids in processing order
RECURSIVE insert_task(_, _, _, _)
insert_task(tasks, sorted, task_id, k) ==
    IF k > Len(sorted) THEN Append(sorted, task_id)
    ELSE IF priority_key(tasks[task_id].priority) > priority_key(tasks[sorted[k]].priority)
         THEN SubSeq(sorted, 1, k - 1) \o <<task_id>> \o SubSeq(sorted, k, Len(sorted))
         ELSE insert_task(tasks, sorted, task_id, k + 1)

RECURSIVE sorted_tasks(_, _, _)
sorted_tasks(tasks, i, sorted) ==
    IF i > Len(tasks) THEN sorted
    ELSE sorted_tasks(tasks, i + 1, insert_task(tasks, sorted, i, 1))

\* lines 40-43: the chosen member takes the task's points
take_task(team_state, user_id, task) ==
    [team_state EXCEPT ![user_id].current_workload = @ + task.estimated_story_points]

\* lines 32-53: the loop over the sorted tasks
RECURSIVE balance_tasks_loop(_, _, _, _, _, _)
balance_tasks_loop(tasks, team_members, order, k, team_state, assignments) ==
    IF k > Len(order) THEN [assignments |-> assignments, team_state |-> team_state]
    ELSE LET task == tasks[order[k]]
             recommendations == get_recommendations(task, team_members)
             top_choice == select_best_fit(recommendations, team_state, 1)
         IN IF top_choice = 0
            THEN balance_tasks_loop(tasks, team_members, order, k + 1, team_state, assignments)
            ELSE balance_tasks_loop(tasks, team_members, order, k + 1,
                     take_task(team_state, top_choice, task),
                     Append(assignments, [task_id |-> order[k], assign_to |-> top_choice]))

\* lines 22-27: the result for no tasks or no team
EmptyBalance == [raised |-> "none", balanced_assignments |-> <<>>, team_state |-> <<>>]

\* WorkloadBalancer.balance_workload
balance_team_workload(tasks, team_members) ==
    IF tasks = <<>> \/ team_members = <<>> THEN EmptyBalance
    ELSE LET done == balance_tasks_loop(tasks, team_members, sorted_tasks(tasks, 1, <<>>),
                         1, team_members, <<>>)
         IN [raised |-> "none",
             balanced_assignments |-> done.assignments,
             team_state |-> done.team_state]

\* a team, before either assignment loop is called on it
InitWB ==
    /\ PIUnused /\ DAUnused /\ TAUnused /\ SGUnused /\ SPUnused /\ SSUnused /\ RCUnused
    /\ pc = "idle"
    /\ wb_in \in [team_members : Teams, tasks : {<<>>}]
    /\ wb_out = EmptyBalance
    /\ sl_in = [team_members |-> wb_in.team_members, selected_stories |-> <<>>]
    /\ sl_out = NoSprintLoad

\* one call of balance_workload
BalanceWorkload(tasks) ==
    /\ pc = "idle"
    /\ pc' = "done"
    /\ wb_in' = [wb_in EXCEPT !.tasks = tasks]
    /\ wb_out' = balance_team_workload(tasks, wb_in.team_members)
    /\ UNCHANGED <<ss_vars, rc_vars, pi_vars, da_vars, ta_vars, sg_vars, sp_vars, sl_vars>>

NextWB ==
    \/ \E tasks \in BalancedTaskLists : BalanceWorkload(tasks)
    \/ \E selected_stories \in SelectedStoryLists : CalculateSprintLoad(selected_stories)

SpecWB == InitWB /\ [][NextWB]_vars

(***************************************************************************)
(* Properties of the assignment loops                                      *)
(***************************************************************************)

\* the ids a sequence of assignments covers
AssignedIds(assignments, field) == {assignments[k][field] : k \in DOMAIN assignments}

\* C11: whenever the roster is non-empty every input item has an assignment
\* in the output, of balance_workload and of calculate_sprint_load alike; an
\* item no member can take within capacity still goes to the best-available
\* member.
C11_EveryItemAssigned ==
    pc = "done" /\ wb_in.team_members # <<>> =>
        /\ DOMAIN wb_in.tasks \subseteq AssignedIds(wb_out.balanced_assignments, "task_id")
        /\ DOMAIN sl_in.selected_stories \subseteq AssignedIds(sl_out.assignments, "story_id")

\* C12: a planning call with an empty backlog or an empty roster aborts with
\* a validation error and returns no plan, not even an empty one (here the
\* call is balance_workload).
C12_EmptyInputRejected ==
    /\ pc = "done"
    /\ sl_in.selected_stories = <<>>
    /\ wb_in.tasks = <<>> \/ wb_in.team_members = <<>>
    => wb_out.raised = "ValidationError"

(***************************************************************************)
(* Further properties of the dependency analyzer                           *)
(***************************************************************************)

\* a non-empty sequence of task ids, each depending on the next and the last
\* on the first
IsCyclePath(tasks, path) ==
    /\ Len(path) >= 1
    /\ \A i \in DOMAIN path : path[i] \in TaskIds
    /\ \A i \in DOMAIN path :
           path[IF i = Len(path) THEN 1 ELSE i + 1] \in tasks[path[i]].dependencies

\* C13: detect_cycles reports a cycle exactly when the dependency graph has
\* a directed cycle, and then its result is the non-empty sequence of the
\* ids that form the cycle, not merely a boolean.
C13_DetectCyclesReturnsPath ==
    da_out.op = "detect_cycles" =>
        /\ da_out.value # FALSE <=> HasDirectedCycle(da_tasks)
        /\ HasDirectedCycle(da_tasks) =>
               da_out.value \notin BOOLEAN /\ IsCyclePath(da_tasks, da_out.value)

(***************************************************************************)
(* Further properties of the allocator                                     *)
(***************************************************************************)

\* the points sprint s held when the k-th assignment of the plan was made
AllocatedBefore(k, s) ==
    SumOverIndices(pi_out.assignments,
                   {j \in 1..(k - 1) : pi_out.assignments[j].sprintId = s})

\* the sprints that held dependencies of the k-th assigned feature at that time
DependencySprintsBefore(k) ==
    {pi_out.assignments[j].sprintId :
        j \in {i \in 1..(k - 1) :
                  pi_out.assignments[i].featureId
                      \in Range(PIGraph[pi_out.assignments[k].featureId])}}

\* no sprint could take the k-th assigned feature within its capacity
NoSprintFits(k) ==
    \A s \in SprintIds :
        AllocatedBefore(k, s) + pi_out.assignments[k].points > pi_in.sprints[s]

\* the sprints of its dependencies, or the first sprint if there is none
PreferredSprints(k) ==
    IF DependencySprintsBefore(k) # {} THEN DependencySprintsBefore(k) ELSE {1}

\* allocated + effort <= 1.2 x capacity
WithinTolerance(k, s) ==
    5 * (AllocatedBefore(k, s) + pi_out.assignments[k].points) <= 6 * pi_in.sprints[s]

\* C14: when no sprint can take a feature within its capacity, the feature
\* goes to its preferred sprint (a sprint holding its dependencies, or the
\* first sprint if it has none) provided allocated + effort stays within 1.2
\* times that sprint's capacity, and to the first sprint only when this
\* tolerance fails too.
C14_OverflowTolerance ==
    pc = "done" =>
        \A k \in DOMAIN pi_out.assignments :
            NoSprintFits(k) =>
                IF \E s \in PreferredSprints(k) : WithinTolerance(k, s)
                THEN pi_out.assignments[k].sprintId
                         \in {s \in PreferredSprints(k) : WithinTolerance(k, s)}
                ELSE pi_out.assignments[k].sprintId = 1

(***************************************************************************)
(* Further properties of the selector                                      *)
(***************************************************************************)

\* the candidate subsets of the shortlists returned so far
ReturnedSubsets ==
    UNION {{sp_results[r][k] : k \in DOMAIN sp_results[r]} : r \in DOMAIN sp_results}

RECURSIVE SelectionPoints(_, _)
SelectionPoints(selection, k) ==
    IF k > Len(selection) THEN 0
    ELSE sp_in.backlog[selection[k]].story_points + SelectionPoints(selection, k + 1)

\* C15: every candidate subset that optimize_story_selection returns is
\* non-empty, holds no story twice and has total story points at most the
\* capacity it was sampled against, whatever the random draws.
C15_SubsetsWellFormed ==
    pc \in {"once", "twice"} =>
        \A selection \in ReturnedSubsets :
            /\ Len(selection) >= 1
            /\ \A i, j \in DOMAIN selection : selection[i] = selection[j] => i = j
            /\ SelectionPoints(selection, 1) <= sp_in.capacity

\* a shortlist holds a subset of two stories that fills the capacity exactly,
\* beside a subset of one story
C15_Witness ==
    /\ pc = "once"
    /\ \E selection \in ReturnedSubsets :
           Len(selection) > 1 /\ SelectionPoints(selection, 1) = sp_in.capacity
    /\ \E selection \in ReturnedSubsets : Len(selection) = 1

\* C16: every story of every returned candidate subset has all of its
\* declared dependencies selected with it; a story with an unmet dependency
\* is never part of a returned subset.
C16_SelectionRespectsDependencies ==
    pc \in {"once", "twice"} =>
        \A selection \in ReturnedSubsets :
            \A k \in DOMAIN selection :
                sp_in.backlog[selection[k]].dependencies \subseteq Range(selection)

(***************************************************************************)
(* Further properties of the scorer                                        *)
(***************************************************************************)

\* the workload score as stated: 1 - utilization, times 0.2 from 0.9 up,
\* times 1.3 up to 0.3, times 1.2 above 0.3 and up to 0.5, clamped to [0, 1]
StatedWorkloadScore(utilization) ==
    LET score == Unit - utilization
    IN Clamp(IF utilization >= Pct(90) THEN (score * 2) \div 10
             ELSE IF utilization <= Pct(30) THEN (score * 13) \div 10
             ELSE IF utilization <= Pct(50) THEN (score * 12) \div 10
             ELSE score,
             0, Unit)

\* C17: calculate_workload_score computes utilization = current_workload /
\* capacity and score = 1 - utilization, multiplied by 0.2 when utilization
\* >= 0.9, by 1.3 when utilization <= 0.3 and by 1.2 when 0.3 < utilization
\* <= 0.5, then clamped to [0, 1].
C17_WorkloadScoreMultipliers ==
    pc = "done" =>
        /\ ta_out.workload_impact * workload_capacity(ta_in.developer)
               = ta_in.developer.current_workload * Unit
        /\ ta_out.workload_score = StatedWorkloadScore(ta_out.workload_impact)

\* C18: when no trained model is loaded, the confidence of a (task,
\* developer) pair is the heuristic weighted score alone, clamped to
\* [0.3, 1.0], whatever the raw capacity, velocity or number of skills.
C18_ConfidenceIsHeuristicAlone ==
    pc = "done" /\ ta_in.source = "heuristic" =>
        ta_out.confidence = ClampConfidence(ta_out.weighted_score)

(***************************************************************************)
(* Further properties of the rebalancing pass                              *)
(***************************************************************************)

\* the plan as the pass sees it when it reaches task k: the tasks before k
\* as the pass left them, the others as they were assigned
PlanAtStep(k) ==
    [i \in DOMAIN sg_assigned |-> IF i < k THEN sg_balanced[i] ELSE sg_assigned[i]]

\* the running loads when the pass reaches task k
WorkloadAtStep(k) == planned_workload(PlanAtStep(k), sg_team)

\* the members whose skills satisfy the task and who carry less than `from`
QualifiedLessLoaded(task, member_workload, from) ==
    {m \in MemberIds : /\ has_required_skills(task, sg_team[m])
                       /\ member_workload[m] < member_workload[from]}

\* C19: in the rebalancing pass a task is moved only if its member's load
\* exceeds 1.2 times the average; the member it is moved to is the least
\* loaded of the members whose skills satisfy the task's required skills
\* (any member when none are required); and whenever such a qualified, less
\* loaded member exists the task is moved to that member.
C19_RebalancingTarget ==
    pc = "done" =>
        \A k \in DOMAIN sg_assigned :
            LET member_workload == WorkloadAtStep(k)
                from == sg_assigned[k].assigned_to
                to == sg_balanced[k].assigned_to
                above == IsAboveAverage(member_workload[from], SumLoads(member_workload, 1))
                qualified == QualifiedLessLoaded(sg_assigned[k].task, member_workload, from)
            IN /\ to # from => above
               /\ to # from =>
                      /\ has_required_skills(sg_assigned[k].task, sg_team[to])
                      /\ \A o \in MemberIds :
                             has_required_skills(sg_assigned[k].task, sg_team[o])
                                 => member_workload[to] <= member_workload[o]
               /\ above /\ qualified # {} =>
                      /\ to \in qualified
                      /\ \A o \in qualified : member_workload[to] <= member_workload[o]

(***************************************************************************)
(* Further properties of the allocation                                    *)
(***************************************************************************)

\* the sprints the k-th assigned feature may go to: every dependency of the
\* feature already sits in a sprint at the same or an earlier position, and
\* the feature fits within the capacity
EligibleSprints(k) ==
    LET fid == pi_out.assignments[k].featureId
    IN {s \in SprintIds :
           /\ \A d \in Range(PIGraph[fid]) :
                  \E j \in 1..(k - 1) : /\ pi_out.assignments[j].featureId = d
                                        /\ pi_out.assignments[j].sprintId <= s
           /\ AllocatedBefore(k, s) + pi_out.assignments[k].points <= pi_in.sprints[s]}

\* C20: each feature, taken in visitation order, goes to the first sprint in
\* chronological order in which every dependency of the feature already sits
\* at the same or an earlier position and allocated + points <= capacity; a
\* feature that does not fit in its dependency's sprint is deferred to the
\* next later sprint with room, and no overload warning is produced when
\* every feature had such a sprint.
C20_FirstEligibleSprint ==
    pc = "done" =>
        /\ \A k \in DOMAIN pi_out.assignments :
               EligibleSprints(k) # {} =>
                   /\ pi_out.assignments[k].sprintId \in EligibleSprints(k)
                   /\ \A s \in EligibleSprints(k) : pi_out.assignments[k].sprintId <= s
        /\ (\A k \in DOMAIN pi_out.assignments : EligibleSprints(k) # {})
               => pi_out.warnings = {}

(***************************************************************************)
(* Properties of the visitation order                                      *)
(***************************************************************************)

\* feature f has the higher priority score weight * value / (points + 1)
HigherScore(f, g) ==
    LET weight(x) == IF pi_in.features[x].priority = "high" THEN 7 ELSE 1
    IN weight(f) * (pi_in.features[g].points + 1)
           > weight(g) * (pi_in.features[f].points + 1)

VisitedBefore(k) == {pi_out.order[i] : i \in 1..(k - 1)}

\* the order holds every feature exactly once
OrderIsPermutation ==
    /\ Len(pi_out.order) = NumFeatures
    /\ \A f \in FeatureIds : \E k \in DOMAIN pi_out.order : pi_out.order[k] = f

\* every feature comes after all of its dependencies
OrderRespectsDependencies ==
    \A k \in DOMAIN pi_out.order :
        (Range(PIGraph[pi_out.order[k]]) \cap FeatureIds) \subseteq VisitedBefore(k)

\* the features not yet visited at position k whose dependencies are
ReadyAt(k) ==
    {g \in FeatureIds \ VisitedBefore(k) :
        (Range(PIGraph[g]) \cap FeatureIds) \subseteq VisitedBefore(k)}

\* C21: the visitation order contains every feature exactly once and, for
\* acyclic dependencies, places every feature after all of its dependencies;
\* among the features whose dependencies are already visited, the one with
\* the higher priority score is visited first.
C21_PriorityTopologicalOrder ==
    pc = "done" =>
        /\ OrderIsPermutation
        /\ Acyclic(PIGraph) =>
               /\ OrderRespectsDependencies
               /\ \A k \in DOMAIN pi_out.order :
                      \A g \in ReadyAt(k) : ~HigherScore(g, pi_out.order[k])

\* C21, amended: the order contains every feature exactly once and, for
\* acyclic dependencies, places every feature after all of its dependencies;
\* a feature is visited before one with a higher score only as a dependency
\* (direct or not) of a later feature whose score is not below that one's.
C21_PriorityDepthFirstOrder ==
    pc = "done" =>
        /\ OrderIsPermutation
        /\ Acyclic(PIGraph) =>
               /\ OrderRespectsDependencies
               /\ \A i, j \in DOMAIN pi_out.order :
                      i < j /\ HigherScore(pi_out.order[j], pi_out.order[i]) =>
                          \E r \in DOMAIN pi_out.order :
                              /\ r > i
                              /\ pi_out.order[i] \in DependsTransitively(PIGraph, pi_out.order[r])
                              /\ ~HigherScore(pi_out.order[j], pi_out.order[r])

\* a low feature is pulled ahead of a higher one by a feature that needs it
C21_Witness ==
    /\ pc = "done"
    /\ Acyclic(PIGraph)
    /\ \E i, j \in DOMAIN pi_out.order :
           /\ i < j
           /\ HigherScore(pi_out.order[j], pi_out.order[i])
           /\ pi_out.order[j] \notin DependsTransitively(PIGraph, pi_out.order[i])
           /\ pi_out.order[i] \notin DependsTransitively(PIGraph, pi_out.order[j])

(***************************************************************************)
(* Further properties of DependencyAnalyzer                                *)
(***************************************************************************)

\* the level of a task of an acyclic set: 0 without dependencies, else one
\* more than the highest level among its dependencies
RECURSIVE LevelOf(_, _)
LevelOf(tasks, t) ==
    IF tasks[t].dependencies = {} THEN 0
    ELSE LET below == {LevelOf(tasks, d) : d \in tasks[t].dependencies}
         IN 1 + CHOOSE m \in below : \A x \in below : x <= m

\* the result is that of the first call that touched the analyzer's state
OnFreshAnalyzer == da_mutations = 1

\* C22: for an acyclic task set parallel_execution places every task in
\* exactly one level, level 0 for a task without dependencies and one more
\* than the highest level of its dependencies otherwise; the list is ordered
\* by level and holds every task, those without dependencies and dependents
\* included.
C22_ParallelLevels ==
    (/\ da_out.op = "parallel_execution"
     /\ OnFreshAnalyzer
     /\ ~HasDirectedCycle(da_tasks)
     /\ AllDependenciesKnown(da_tasks)) =>
        LET levels == da_out.value
            highest == CHOOSE m \in {LevelOf(da_tasks, t) : t \in TaskIds} :
                           \A t \in TaskIds : LevelOf(da_tasks, t) <= m
        IN /\ Len(levels) = highest + 1
           /\ \A i \in DOMAIN levels :
                  /\ Range(levels[i]) = {t \in TaskIds : LevelOf(da_tasks, t) = i - 1}
                  /\ Len(levels[i]) = Cardinality(Range(levels[i]))

\* the largest total duration of a dependency chain that ends in task t
RECURSIVE LongestChainTo(_, _)
LongestChainTo(tasks, t) ==
    LET before == {LongestChainTo(tasks, d) : d \in tasks[t].dependencies}
    IN tasks[t].duration
           + (IF before = {} THEN 0 ELSE CHOOSE m \in before : \A x \in before : x <= m)

RECURSIVE PathDuration(_, _)
PathDuration(tasks, path) ==
    IF path = <<>> THEN 0 ELSE tasks[Head(path)].duration + PathDuration(tasks, Tail(path))

\* C23: for an acyclic task set critical_path returns an ordered id sequence
\* in which each consecutive pair is a dependency edge, which starts at a
\* task without dependencies, and whose total duration is the maximum over
\* all dependency chains of the graph.
C23_CriticalPathIsLongest ==
    (/\ da_out.op = "critical_path"
     /\ ~HasDirectedCycle(da_tasks)
     /\ AllDependenciesKnown(da_tasks)) =>
        /\ da_out.kind = "ok"
        /\ da_out.value # <<>>
        /\ Range(da_out.value) \subseteq TaskIds
        /\ \A i \in 1..(Len(da_out.value) - 1) :
               da_out.value[i] \in da_tasks[da_out.value[i + 1]].dependencies
        /\ da_tasks[da_out.value[1]].dependencies = {}
        /\ \A t \in TaskIds :
               LongestChainTo(da_tasks, t) <= PathDuration(da_tasks, da_out.value)

\* C27: the graph queries of one analyzer are repeatable and independent of
\* the call order: no query changes the analyzer's in-degree state, and
\* topological_sort and critical_path return what they return on a fresh
\* analyzer, whatever was called before.
C27_QueriesRepeatable ==
    LET fresh == calculate_in_degrees(DAGraph)
    IN /\ da_in_degree = fresh
       /\ da_out.op = "topological_sort" =>
              da_out = [op |-> "topological_sort"] @@ topological_sort(DAGraph, fresh)
       /\ da_out.op = "critical_path" =>
              da_out = [op |-> "critical_path"] @@ critical_path(da_tasks, DAGraph, fresh)

\* C28: topological_sort raises the cycle error only if the dependency graph
\* has a directed cycle: for an acyclic task set it returns a complete order,
\* also when a task lists a dependency id that is no task of the set.
C28_CycleErrorOnlyOnCycle ==
    (/\ da_out.op = "topological_sort"
     /\ da_mutations = 0
     /\ ~HasDirectedCycle(da_tasks)) =>
        /\ da_out.kind = "ok"
        /\ Len(da_out.value) = NumTasks
        /\ Range(da_out.value) = TaskIds

(***************************************************************************)
(* SprintAutoGenerator: the selection of the stories of a sprint           *)
(***************************************************************************)
MaxSprintCapacity == 5
MaxSelectablePoints == 3
MaxStoryDependencies == 2

CandidateIds == {1, 2, 3}
NumCandidates == Cardinality(CandidateIds)

\* the available stories in list order; a story's id is its position
CandidateStories ==
    [priority : {"high", "low"},
     storyPoints : 1..MaxSelectablePoints,
     status : {"ready", "done"},
     dependencies : SUBSET CandidateIds]
AvailableStories ==
    {stories \in [CandidateIds -> CandidateStories] :
        /\ \A id \in CandidateIds : id \notin stories[id].dependencies
        /\ SumSeq([i \in 1..NumCandidates |-> Cardinality(stories[i].dependencies)])
               <= MaxStoryDependencies}

\* line 81
priority_order(p) ==
    CASE p = "critical" -> 4
      [] p = "high" -> 3
      [] p = "medium" -> 2
      [] p = "low" -> 1
      [] OTHER -> 2

\* line 83: the stories whose status is backlog, ready or missing
is_plannable(story) == story.status \in {"backlog", "ready"}

\* _filter_by_priority: the ids of the plannable stories, highest priority
\* first, the list order kept among equals
filter_by_priority(stories) ==
    LET filtered == {i \in CandidateIds : is_plannable(stories[i])}
        ahead(i) == {j \in filtered :
                        \/ priority_order(stories[j].priority) > priority_order(stories[i].priority)
                        \/ /\ priority_order(stories[j].priority) = priority_order(stories[i].priority)
                           /\ j < i}
    IN [k \in 1..Cardinality(filtered) |->
            CHOOSE i \in filtered : Cardinality(ahead(i)) = k - 1]

\* DependenciesSatisfied with any() in place of all()
DependenciesSatisfied_Any(dependencies, selected_ids) ==
    dependencies = {} \/ dependencies \cap selected_ids # {}

\* lines 113-116: all(dep_id in selected_ids for dep_id in dependencies)
DependenciesSatisfied(dependencies, selected_ids) ==
    dependencies \subseteq selected_ids

\* line 119
FitsSprint(used_capacity, story_points, capacity) ==
    used_capacity + story_points <= capacity

\* WithinSprintTolerance with the factor 1.5
WithinSprintTolerance_Half(used_capacity, story_points, capacity) ==
    2 * (used_capacity + story_points) <= 3 * capacity

\* line 125: used_capacity + story_points <= capacity * 1.2
WithinSprintTolerance(used_capacity, story_points, capacity) ==
    5 * (used_capacity + story_points) <= 6 * capacity

\* lines 107-129: the pass over the sorted stories
RECURSIVE select_loop(_, _, _, _, _, _)
select_loop(stories, capacity, order, i, selected, used_capacity) ==
    IF i > Len(order) THEN selected
    ELSE LET story_id == order[i]
             story_points == stories[story_id].storyPoints
         IN IF ~DependenciesSatisfied(stories[story_id].dependencies, Range(selected))
            THEN select_loop(stories, capacity, order, i + 1, selected, used_capacity)
            ELSE IF FitsSprint(used_capacity, story_points, capacity)
            THEN select_loop(stories, capacity, order, i + 1,
                             Append(selected, story_id), used_capacity + story_points)
            ELSE IF WithinSprintTolerance(used_capacity, story_points, capacity)
            THEN Append(selected, story_id)
            ELSE select_loop(stories, capacity, order, i + 1, selected, used_capacity)

\* _select_stories_for_capacity on the sorted stories
select_stories_for_capacity(stories, order, capacity) ==
    select_loop(stories, capacity, order, 1, <<>>, 0)

InitSS ==
    /\ PIUnused /\ DAUnused /\ TAUnused /\ SGUnused /\ SPUnused /\ WBUnused /\ RCUnused
    /\ pc = "idle"
    /\ ss_in \in [stories : AvailableStories, capacity : {0}]
    /\ ss_out = <<>>

\* generate_plan, steps 1 and 2: filter and sort, then select
SelectStories(capacity) ==
    /\ pc = "idle"
    /\ pc' = "done"
    /\ ss_in' = [ss_in EXCEPT !.capacity = capacity]
    /\ ss_out' = select_stories_for_capacity(ss_in.stories,
                                             filter_by_priority(ss_in.stories), capacity)
    /\ UNCHANGED <<rc_vars, pi_vars, da_vars, ta_vars, sg_vars, sp_vars, wb_vars, sl_vars>>

NextSS == \E capacity \in 0..MaxSprintCapacity : SelectStories(capacity)

SpecSS == InitSS /\ [][NextSS]_vars

(***************************************************************************)
(* Properties of the story selection                                       *)
(***************************************************************************)
SelectedBefore(k) == {ss_out[j] : j \in 1..(k - 1)}

RECURSIVE PointsOfFirst(_)
PointsOfFirst(k) ==
    IF k = 0 THEN 0 ELSE ss_in.stories[ss_out[k]].storyPoints + PointsOfFirst(k - 1)

\* C24: a story is selected only if every one of its declared dependencies
\* was selected earlier in the same pass: in the returned list the
\* dependencies of every story precede it, and a story with a dependency
\* that is absent from the sorted list or later in it is never selected.
C24_DependenciesSelectedFirst ==
    pc = "done" =>
        /\ \A k \in DOMAIN ss_out :
               ss_in.stories[ss_out[k]].dependencies \subseteq SelectedBefore(k)
        /\ \A id \in CandidateIds :
               LET order == filter_by_priority(ss_in.stories)
               IN (\E d \in ss_in.stories[id].dependencies :
                       \/ d \notin Range(order)
                       \/ id \in Range(order)
                          /\ IndexIn(order, d) > IndexIn(order, id))
                      => id \notin Range(ss_out)

\* a story follows its two dependencies, and room is left for a story that
\* is kept out by a dependency
C24_Witness ==
    /\ pc = "done"
    /\ \E k \in DOMAIN ss_out : Cardinality(ss_in.stories[ss_out[k]].dependencies) = 2
    /\ PointsOfFirst(Len(ss_out)) < ss_in.capacity

\* C25: the selected stories fit within the capacity up to the 20%
\* tolerance: their total never exceeds 1.2 x capacity, at most one selected
\* story takes the total above the capacity, and that story is the last one.
C25_SelectionWithinTolerance ==
    pc = "done" =>
        /\ 5 * PointsOfFirst(Len(ss_out)) <= 6 * ss_in.capacity
        /\ \A k \in 1..(Len(ss_out) - 1) : PointsOfFirst(k) <= ss_in.capacity

\* the last selected story took the total above the capacity while a
\* plannable story with no dependency was left out
C25_Witness ==
    /\ pc = "done"
    /\ PointsOfFirst(Len(ss_out)) > ss_in.capacity
    /\ \E id \in CandidateIds \ Range(ss_out) :
           is_plannable(ss_in.stories[id]) /\ ss_in.stories[id].dependencies = {}

(***************************************************************************)
(* Further properties of WorkloadBalancer                                  *)
(***************************************************************************)

\* C26: balance_workload never overcommits a member: a task goes to a member
\* only if the member's accumulated workload plus the task's story points is
\* at most the member's capacity, so every member who started at or below
\* capacity ends at or below capacity.
C26_NoOvercommit ==
    pc = "done" /\ wb_out.team_state # <<>> =>
        \A m \in DOMAIN wb_in.team_members :
            wb_in.team_members[m].current_workload <= wb_in.team_members[m].capacity
                => wb_out.team_state[m].current_workload <= wb_in.team_members[m].capacity

\* the rank of a priority: critical before high before medium before low
PriorityRank(priority) ==
    CASE priority = "critical" -> 4
      [] priority = "high" -> 3
      [] priority = "medium" -> 2
      [] priority = "low" -> 1

\* C29: balance_workload processes the tasks in descending priority,
\* critical before high before medium before low, so a task of higher
\* priority claims a member's capacity before any task of lower priority.
C29_DescendingPriority ==
    pc = "done" =>
        \A i, j \in DOMAIN wb_out.balanced_assignments :
            i < j =>
                PriorityRank(wb_in.tasks[wb_out.balanced_assignments[i].task_id].priority)
                    >= PriorityRank(wb_in.tasks[wb_out.balanced_assignments[j].task_id].priority)

(***************************************************************************)
(* POST /api/ml/tasks/recommend-assignee and its prediction cache          *)
(*                                                                         *)
(* The cache key is the MD5 of the JSON text of the key data; two requests *)
(* get the same key exactly when their key data are equal, so the key is   *)
(* the key data. A cached value is the JSON text of the response, which    *)
(* json.loads turns back into an equal response.                           *)
(***************************************************************************)
MaxRequests == 2

\* the team members of a request, as dictionaries; a member's user_id is its
\* position in the list
RequestMembers ==
    {m \in TeamMembers : /\ m.capacity \in {0, MaxMemberCapacity}
                         /\ m.current_workload \in {0, MaxMemberLoad}}
RequestTeams == UNION {[1..n -> RequestMembers] : n \in 0..2}
RequestTasks == [required_skills : {{}, {"py"}}]
Requests == [task : RequestTasks, team_members : RequestTeams]

NormalizedDefaultCapacity == 40

\* _normalize_team_members, the dictionary branch, as the record
\* _score_developer reads
normalize_member(member) ==
    [skills |-> member.skills,
     capacity |-> IF member.capacity # 0 THEN member.capacity ELSE NormalizedDefaultCapacity,
     current_workload |-> member.current_workload,
     has_completion_rate |-> TRUE,
     completion_rate |-> Pct(50),
     time_accuracy |-> Pct(50),
     on_time_delivery |-> Pct(50),
     time_tracking_consistency |-> Pct(50),
     complexity_handled |-> "medium",
     collaboration_index |-> Pct(50)]

normalize_team_members(team_members) ==
    [i \in DOMAIN team_members |-> normalize_member(team_members[i])]

\* round(x, 2), in hundredths
round_hundredths(x) == (x + Unit \div 200) \div (Unit \div 100)

\* get_recommendations on the normalized team: the payload, best first
recommendations_payload(task, developers) ==
    LET scored(i) == score_developer(as_scored_task(task), developers[i], "heuristic")
        ahead(i) == {j \in DOMAIN developers :
                        \/ scored(j).confidence > scored(i).confidence
                        \/ scored(j).confidence = scored(i).confidence /\ j < i}
        n == IF Len(developers) < TopN THEN Len(developers) ELSE TopN
    IN [k \in 1..n |->
            LET i == CHOOSE x \in DOMAIN developers : Cardinality(ahead(x)) = k - 1
            IN [user_id |-> i,
                confidence |-> round_hundredths(scored(i).confidence),
                current_workload |-> <<developers[i].current_workload, developers[i].capacity>>,
                skill_match_score |-> round_hundredths(scored(i).skill_match_score),
                workload_score |-> round_hundredths(scored(i).workload_score)]]

\* lines 99-105: the task and the ids of the team members
cache_key(task, team_members) ==
    [task |-> task, team_members |-> [i \in DOMAIN team_members |-> i]]

NoEntries == [k \in {} |-> <<>>]

\* CacheUtils.get; <<>> stands for None
cache_get(cache, key) ==
    IF cache.redis_client /\ key \in DOMAIN cache.entries THEN cache.entries[key] ELSE <<>>

\* CacheUtils.set
cache_set(cache, key, value) ==
    IF cache.redis_client
    THEN [cache EXCEPT !.entries = (key :> value) @@ cache.entries]
    ELSE cache

\* the response of recommend_assignee and the cache it leaves
recommend_assignee(cache, request) ==
    IF request.team_members = <<>>
    THEN [response |-> "HTTP_400_BAD_REQUEST", cache |-> cache]
    ELSE LET team_members == normalize_team_members(request.team_members)
             key == cache_key(request.task, team_members)
             cached_result == cache_get(cache, key)
             recommendations == recommendations_payload(request.task, team_members)
         IN IF cached_result # <<>>
            THEN [response |-> cached_result, cache |-> cache]
            ELSE [response |-> recommendations,
                  cache |-> cache_set(cache, key, recommendations)]

\* the service starts with an empty cache, with or without a Redis connection
InitRC ==
    /\ PIUnused /\ DAUnused /\ TAUnused /\ SGUnused /\ SPUnused /\ WBUnused /\ SSUnused
    /\ pc = "idle"
    /\ rc_cache \in [redis_client : BOOLEAN, entries : {NoEntries}]
    /\ rc_in = <<>>
    /\ rc_out = <<>>

\* one request to the endpoint
RecommendAssignee(request) ==
    /\ Len(rc_in) < MaxRequests
    /\ LET r == recommend_assignee(rc_cache, request)
       IN /\ rc_out' = Append(rc_out, r.response)
          /\ rc_cache' = r.cache
    /\ rc_in' = Append(rc_in, request)
    /\ UNCHANGED <<pc, ss_vars, pi_vars, da_vars, ta_vars, sg_vars, sp_vars, wb_vars, sl_vars>>

\* Redis drops an entry when its 600 seconds are over
ExpireEntry(key) ==
    /\ key \in DOMAIN rc_cache.entries
    /\ rc_cache' = [rc_cache EXCEPT !.entries = [k \in DOMAIN @ \ {key} |-> @[k]]]
    /\ UNCHANGED <<pc, rc_in, rc_out, ss_vars, pi_vars, da_vars, ta_vars, sg_vars, sp_vars, wb_vars, sl_vars>>

NextRC ==
    \/ \E request \in Requests : RecommendAssignee(request)
    \/ \E key \in DOMAIN rc_cache.entries : ExpireEntry(key)

SpecRC == InitRC /\ [][NextRC]_vars

(***************************************************************************)
(* Properties of the cached endpoint                                       *)
(***************************************************************************)

\* what the request gets when nothing is cached
UncachedResponse(request) ==
    recommend_assignee([redis_client |-> FALSE, entries |-> NoEntries], request).response

\* C30: the endpoint with its cache is equivalent to the uncached scorer:
\* every response equals what get_recommendations computes from that
\* request's own task and team members; a cached response is never served
\* to a request whose team members differ in workload, capacity or skills
\* from those of the request that filled the entry.
C30_CacheTransparent ==
    \A i \in DOMAIN rc_out : rc_out[i] = UncachedResponse(rc_in[i])

====
